---- MODULE Spec2Model ----
(***************************************************************************)
(* The decision-to-execution pipeline of the trading bot: TradingBot's     *)
(* execute_decision / _open_long / _open_short / _close_position (main.py),*)
(* TradeExecutor's open_long / open_short / close_position                 *)
(* (trading/trade_executor.py), the state readers and the exchange client  *)
(* (api/binance_client.py), at the granularity of one step per exchange    *)
(* call.  The exchange is the environment: every call to it may succeed or *)
(* fail.                                                                   *)
(*                                                                         *)
(* Numbers: quantities and position amounts are in hundredths (0.02 is 2), *)
(* confidences in hundredths (0.5 is 50), prices and equity in whole USDT. *)
(***************************************************************************)
EXTENDS Integers, Sequences, FiniteSets, TLC

VARIABLES
    pos,          \* exchange: signed position amount per symbol (positionAmt)
    protect,      \* exchange: conditional orders resting per symbol, subset of {"TP","SL"}
    trade_count,  \* TradingBot.trade_count
    pc,           \* where the controller stands
    sym,          \* execute_decision: symbol
    decision,     \* execute_decision: decision
    price,        \* market_data['realtime'].get('price', 0)
    total_equity, \* account_summary['equity'] as read by execute_decision
    args,         \* arguments of the running TradeExecutor call
    attempt,      \* retry_on_failure: number of the running attempt, 1-based
    position_amt, \* close_position: the amount read in the running attempt
    calls,        \* collaborator calls made by the running execute_decision, in order
    events,       \* log events emitted by the running execute_decision
    outcome,      \* how the last execute_decision ended ("running" while it runs)
    symbols,      \* run_cycle: the configured trading symbols, in order
    phase,        \* run / run_cycle: where the pass over the symbols stands
    todo,         \* run_cycle: what the loop of the pass has still to go through
    decided,      \* run_cycle: the decisions the decide step produced in this pass
    handled,      \* run_cycle: the symbols execute_decision was called for in this pass
    decision_history, \* TradingBot.decision_history
    clock,        \* datetime.now(), counted in saves
    raw,          \* a state reader's input: the record the exchange returned
    derived       \* a state reader's output for raw

\* the state of execute_decision, the executor and the exchange
controller_vars ==
    <<pos, protect, trade_count, pc, sym, decision, price, total_equity,
      args, attempt, position_amt, calls, events, outcome>>

\* the state of the pass over the symbols and of the decision history
cycle_vars == <<symbols, phase, todo, decided, handled, decision_history, clock>>

\* the state of a state reader applied to one record
reader_vars == <<raw, derived>>

vars == <<controller_vars, cycle_vars, reader_vars>>

---------------------------------------------------------------------------
(* Bounds of the model *)

\* |positionAmt| the exchange accepts, in hundredths; an order beyond it is rejected
MaxPos == 2
\* trades after which run_cycle starts no further execute_decision
MaxTrades == 1
\* calls of save_decision made on a given history
MaxSaves == 3

---------------------------------------------------------------------------
(* Inputs *)

Symbols == {"BTCUSDT", "ETHUSDT"}

Actions == {"BUY_OPEN", "SELL_OPEN", "CLOSE", "HOLD"}

\* a confidence value as the AI text carries it: a string, a number (hundredths)
\* or something else (null, a list)
StrConf(s) == [kind |-> "str", str |-> s, num |-> 0]
NumConf(n) == [kind |-> "num", str |-> <<>>, num |-> n]
OtherConf == [kind |-> "other", str |-> <<>>, num |-> 0]

ConfidenceInputs ==
    { StrConf(<<"H", "I", "G", "H">>),
      StrConf(<<" ", "l", "o", "w", " ">>),
      StrConf(<<"M", "a", "y", "b", "e">>),
      NumConf(30),
      OtherConf }

LeverageInputs == {1, 5}
PositionPercentInputs == {10, 20}
EquityInputs == {0, 5000}
PriceInputs == {0, 50000}
InitialPositions == {-1, 0, 1}

\* the decisions the AI may return: an open carries any leverage and size, a
\* CLOSE or HOLD the smallest ones
Decisions ==
    [ action : {"BUY_OPEN", "SELL_OPEN"},
      confidence : ConfidenceInputs,
      leverage : LeverageInputs,
      position_percent : PositionPercentInputs,
      take_profit_percent : {5},
      stop_loss_percent : {-2} ]
    \cup
    [ action : {"CLOSE", "HOLD"},
      confidence : ConfidenceInputs,
      leverage : {1},
      position_percent : {10},
      take_profit_percent : {5},
      stop_loss_percent : {-2} ]

---------------------------------------------------------------------------
(* utils/confidence_converter.py *)

UpperChar(c) ==
    CASE c = "h" -> "H" [] c = "i" -> "I" [] c = "g" -> "G" [] c = "l" -> "L"
      [] c = "o" -> "O" [] c = "w" -> "W" [] c = "m" -> "M" [] c = "e" -> "E"
      [] c = "d" -> "D" [] c = "u" -> "U" [] c = "a" -> "A" [] c = "y" -> "Y"
      [] c = "b" -> "B" [] OTHER -> c

Upper(s) == [i \in 1..Len(s) |-> UpperChar(s[i])]

RECURSIVE LStrip(_)
LStrip(s) == IF s # <<>> /\ Head(s) = " " THEN LStrip(Tail(s)) ELSE s

RECURSIVE RStrip(_)
RStrip(s) ==
    IF s # <<>> /\ s[Len(s)] = " " THEN RStrip(SubSeq(s, 1, Len(s) - 1)) ELSE s

Strip(s) == RStrip(LStrip(s))

convert_confidence_to_float(confidence) ==
    IF confidence.kind = "str"
    THEN LET conf_str == Strip(Upper(confidence.str))
         IN  IF conf_str = <<"H", "I", "G", "H">> THEN 80
             ELSE IF conf_str = <<"M", "E", "D", "I", "U", "M">> THEN 60
             ELSE IF conf_str = <<"L", "O", "W">> THEN 40
             ELSE 50
    ELSE IF confidence.kind = "num" THEN confidence.num
    ELSE 50

---------------------------------------------------------------------------
(* Parts of the repository that are not among the source files *)

\* DecisionParser._get_default_decision: the safe default of a parse failure
default_decision ==
    [ action |-> "HOLD", confidence |-> NumConf(50), leverage |-> 1,
      position_percent |-> 0, take_profit_percent |-> 5, stop_loss_percent |-> -2 ]

\* RiskManager.check_all_risk_limits(symbol, quantity, price, equity, available):
\* every configured limit is evaluated and every violation is collected
max_position_value == 750
max_symbol_exposure_pct == 30
min_equity == 100

check_all_risk_limits(s, qty, p, equity, available) ==
    LET position_value == (qty * p) \div 100
        errors ==
            (IF position_value > max_position_value THEN {"max_position_value"} ELSE {})
            \cup (IF position_value * 100 > max_symbol_exposure_pct * equity
                  THEN {"max_symbol_exposure"} ELSE {})
            \cup (IF equity < min_equity THEN {"min_equity"} ELSE {})
    IN  [ok |-> errors = {}, errors |-> errors]

\* retry_on_failure(max_retries, delay): the call is attempted again after a
\* failure while attempts remain; the last failure is raised to the caller
should_retry(n, max) == n < max

---------------------------------------------------------------------------
(* Helpers *)

\* one attempt more than the decorator argument
max_retries_one_more == 3 + 1

\* the decorator argument of open_long, open_short and close_position
max_retries == 3

\* a collaborator call as the log keeps it: the operation, its symbol, its side,
\* its number (quantity, amount, leverage or price), its result, the attempt of
\* the executor call it belongs to (0 before the executor is called) and the
\* amount the exchange held for the symbol when it was made
Call(op, a, n, res) ==
    [op |-> op, sym |-> sym, a |-> a, n |-> n, res |-> res, att |-> attempt,
     held |-> pos[sym]]

\* the log when an attempt is abandoned: the calls made before the executor was
\* called stay, the calls of the failed attempt go
BeforeExecutor(log) == SelectSeq(log, LAMBDA c : c.att = 0)

Event(level, msg) == [level |-> level, msg |-> msg]

NoArgs == [side |-> "-", quantity |-> 0, leverage |-> 0, take_profit |-> 0, stop_loss |-> 0]

\* the exchange's position after a filled market order
Filled(amt, side, qty) == IF side = "BUY" THEN amt + qty ELSE amt - qty

\* what a market order submission can do: fill and answer, or be rejected (the
\* exchange rejects what would take the position beyond its limit)
OrderResults(amt, side, qty) ==
    IF Filled(amt, side, qty) \in -MaxPos..MaxPos
    THEN {"ok", "rejected"}
    ELSE {"rejected"}

\* the pass over the symbols and the decision history left aside
cycle_idle ==
    /\ symbols = <<>>
    /\ phase = "off"
    /\ todo = <<>>
    /\ decided = <<>>
    /\ handled = {}
    /\ decision_history = <<>>
    /\ clock = 0

\* the state readers left aside
reader_idle ==
    /\ raw = <<>>
    /\ derived = <<>>

Init ==
    /\ pos \in [Symbols -> InitialPositions]
    /\ protect = [s \in Symbols |-> {}]
    /\ trade_count = 0
    /\ pc = "idle"
    /\ sym = "BTCUSDT"
    /\ decision = default_decision
    /\ price = 0
    /\ total_equity = 0
    /\ args = NoArgs
    /\ attempt = 0
    /\ position_amt = 0
    /\ calls = <<>>
    /\ events = {}
    /\ outcome = "none"
    /\ cycle_idle
    /\ reader_idle

---------------------------------------------------------------------------
(* main.py: the cycle and execute_decision *)

\* run_cycle, single-symbol path: get_market_data_for_symbol (its realtime part
\* is empty, and the price 0, when the quote could not be fetched), then the
\* decision analyze_with_ai returns for the symbol (the default decision when
\* the AI call or the parse fails)
analyze_with_ai(s, ok, d, p) ==
    /\ pc = "idle"
    /\ sym' = s
    /\ decision' = IF ok THEN d ELSE default_decision
    /\ price' = p
    /\ pc' = "execute"
    /\ outcome' = "running"
    /\ calls' = <<[op |-> "getMarketData", sym |-> s, a |-> "-", n |-> p,
                   res |-> IF p = 0 THEN "fail" ELSE "ok", att |-> 0,
                   held |-> pos[s]]>>
    /\ UNCHANGED <<pos, protect, trade_count, total_equity, args, attempt,
                   position_amt, events>>
    /\ UNCHANGED <<cycle_vars, reader_vars>>

\* execute_decision has returned to run_cycle, which goes on; the locals of the
\* finished call are gone
run_cycle_continue ==
    /\ pc = "done"
    /\ trade_count < MaxTrades
    /\ pc' = "idle"
    /\ sym' = "BTCUSDT"
    /\ decision' = default_decision
    /\ price' = 0
    /\ total_equity' = 0
    /\ args' = NoArgs
    /\ attempt' = 0
    /\ position_amt' = 0
    /\ calls' = <<>>
    /\ events' = {}
    /\ outcome' = "none"
    /\ UNCHANGED <<pos, protect, trade_count>>
    /\ UNCHANGED <<cycle_vars, reader_vars>>

\* the gate with its threshold at 0.4: LOW (0.4) passes
confidence_too_low_threshold(confidence, action) == confidence < 40 /\ action # "CLOSE"

\* the gate without its exception for CLOSE
confidence_too_low_any_action(confidence, action) == confidence < 50

\* the confidence gate of execute_decision
confidence_too_low(confidence, action) == confidence < 50 /\ action # "CLOSE"

\* an execute_decision that returns here: nothing but the log and the result change
Return(result, evs) ==
    /\ pc' = "done"
    /\ outcome' = result
    /\ events' = events \cup evs

execute_decision ==
    /\ pc = "execute"
    /\ LET action == decision.action
           confidence == convert_confidence_to_float(decision.confidence)
       IN  IF confidence_too_low(confidence, action)
           THEN Return("low_confidence", {Event("warning", "confidence_too_low")})
           ELSE /\ pc' = "account"
                /\ UNCHANGED <<outcome, events>>
    /\ UNCHANGED <<pos, protect, trade_count, sym, decision, price, total_equity,
                   args, attempt, position_amt, calls>>
    /\ UNCHANGED <<cycle_vars, reader_vars>>

\* the dispatch with every other action taken for a CLOSE
dispatch_other_is_close(action) ==
    CASE action = "BUY_OPEN" -> "open_long"
      [] action = "SELL_OPEN" -> "open_short"
      [] OTHER -> "close_read"

\* where execute_decision goes once the account summary and the price are there
dispatch(action) ==
    CASE action = "BUY_OPEN" -> "open_long"
      [] action = "SELL_OPEN" -> "open_short"
      [] action = "CLOSE" -> "close_read"
      [] OTHER -> "done"

\* account_data.get_account_summary (None when the read fails), the price check
\* and the dispatch on the action
get_account_summary(r, equity) ==
    /\ pc = "account"
    /\ calls' = Append(calls, Call("getAccount", "-", 0, r))
    /\ IF r # "ok"
       THEN /\ Return("no_account", {Event("warning", "no_account")})
            /\ UNCHANGED <<total_equity, attempt>>
       ELSE /\ total_equity' = equity
            /\ IF price = 0
               THEN /\ Return("no_price", {Event("warning", "no_price")})
                    /\ UNCHANGED attempt
               ELSE /\ pc' = dispatch(decision.action)
                    /\ attempt' = IF decision.action = "CLOSE" THEN 1 ELSE attempt
                    /\ outcome' = IF decision.action = "HOLD" THEN "hold" ELSE outcome
                    /\ UNCHANGED events
    /\ UNCHANGED <<pos, protect, trade_count, sym, decision, price, args, position_amt>>
    /\ UNCHANGED <<cycle_vars, reader_vars>>

---------------------------------------------------------------------------
(* main.py: _open_long and _open_short up to the call of the executor *)

\* position_data.get_current_position: the signed amount read, 0 for absent;
\* a failed read and a zero amount both come back as absent
get_current_position(s, r) == IF r = "ok" THEN pos[s] ELSE 0

\* the quantity sized on the leveraged value instead of the margin share
order_quantity_leveraged(equity, percent, p) ==
    (equity * percent * decision.leverage * 100) \div (100 * p)

\* quantity = total_equity * (position_percent / 100) / current_price, in hundredths
order_quantity(equity, percent, p) == (equity * percent * 100) \div (100 * p)

take_profit_long(p, d) == (p * (100 + d.take_profit_percent)) \div 100
stop_loss_long(p, d) == (p * (100 + d.stop_loss_percent)) \div 100
take_profit_short(p, d) == (p * (100 - d.take_profit_percent)) \div 100
stop_loss_short(p, d) ==
    LET abs_sl == IF d.stop_loss_percent < 0 THEN -d.stop_loss_percent
                  ELSE d.stop_loss_percent
    IN  (p * (100 + abs_sl)) \div 100

\* the first step of open_long / open_short: the leverage call when leverage > 1
open_start(side, leverage) ==
    IF leverage # 0 /\ leverage > 1
    THEN (IF side = "BUY" THEN "long_leverage" ELSE "short_leverage")
    ELSE (IF side = "BUY" THEN "long_entry" ELSE "short_entry")

\* the verdict of the risk check ignored
risk_check_passed_always(verdict) == TRUE

\* "if not ok: ... return" after the risk check
risk_check_passed(verdict) == verdict.ok

\* the body shared by _open_long (side BUY) and _open_short (side SELL): the
\* equity check, the position check, the sizing, the risk check and the
\* protective prices; r is the result of the position read
OpenRequest(side, take_profit, stop_loss, r) ==
    LET position == get_current_position(sym, r)
        quantity == order_quantity(total_equity, decision.position_percent, price)
        verdict == check_all_risk_limits(sym, quantity, price, total_equity, total_equity)
        read == Call("getPosition", "-", position, r)
        gate == Call("riskCheck", "-", quantity,
                     IF verdict.ok THEN "accept" ELSE "reject")
    IN  IF total_equity <= 0
        THEN /\ Return("no_equity", {Event("warning", "no_equity")})
             /\ UNCHANGED <<calls, args, attempt>>
        ELSE IF position # 0
        THEN /\ Return("has_position", {Event("warning", "has_position")})
             /\ calls' = Append(calls, read)
             /\ UNCHANGED <<args, attempt>>
        ELSE IF quantity <= 0
        THEN /\ Return("bad_quantity", {Event("error", "bad_quantity")})
             /\ calls' = Append(calls, read)
             /\ UNCHANGED <<args, attempt>>
        ELSE IF ~risk_check_passed(verdict)
        THEN /\ Return("risk_rejected", {Event("error", "risk_rejected")})
             /\ calls' = calls \o <<read, gate>>
             /\ UNCHANGED <<args, attempt>>
        ELSE /\ calls' = calls \o <<read, gate>>
             /\ args' = [side |-> side, quantity |-> quantity,
                         leverage |-> decision.leverage,
                         take_profit |-> take_profit, stop_loss |-> stop_loss]
             /\ attempt' = 1
             /\ pc' = open_start(side, decision.leverage)
             /\ UNCHANGED <<outcome, events>>

open_long_request(r) ==
    /\ pc = "open_long"
    /\ OpenRequest("BUY", take_profit_long(price, decision),
                   stop_loss_long(price, decision), r)
    /\ UNCHANGED <<pos, protect, trade_count, sym, decision, price, total_equity,
                   position_amt>>
    /\ UNCHANGED <<cycle_vars, reader_vars>>

open_short_request(r) ==
    /\ pc = "open_short"
    /\ OpenRequest("SELL", take_profit_short(price, decision),
                   stop_loss_short(price, decision), r)
    /\ UNCHANGED <<pos, protect, trade_count, sym, decision, price, total_equity,
                   position_amt>>
    /\ UNCHANGED <<cycle_vars, reader_vars>>

---------------------------------------------------------------------------
(* utils/decorators.py: retry_on_failure around open_long, open_short and   *)
(* close_position                                                           *)

\* no decision stands behind force_close_position: the slot of the decision
\* names the entry point instead
forced_close == [default_decision EXCEPT !.action = "FORCE_CLOSE"]

\* the executor was called by _open_long, _open_short or _close_position
via_main == decision.action # "FORCE_CLOSE"

raised_pc(fn) ==
    CASE fn = "open_long" -> "raised_long"
      [] fn = "open_short" -> "raised_short"
      [] OTHER -> "raised_close"

\* a retry of close_position going on from the order with the amount read before
start_pc_without_reread(fn) ==
    CASE fn = "open_long" -> open_start("BUY", args.leverage)
      [] fn = "open_short" -> open_start("SELL", args.leverage)
      [] OTHER -> IF attempt >= 1 /\ position_amt # 0 THEN "close_order" ELSE "close_read"

\* open_long and open_short start with the leverage call when leverage > 1
start_pc(fn) ==
    CASE fn = "open_long" -> open_start("BUY", args.leverage)
      [] fn = "open_short" -> open_start("SELL", args.leverage)
      [] OTHER -> "close_read"

\* what the caller in main.py logs when the executor call raises
failed_outcome(fn) == IF fn = "close_position" THEN "close_failed" ELSE "open_failed"

\* the wrapper retrying without counting its attempts
retry_on_failure_uncounted(fn) ==
    /\ pc = raised_pc(fn)
    /\ calls' = BeforeExecutor(calls)
    /\ pc' = start_pc(fn)
    /\ UNCHANGED <<outcome, events, attempt>>
    /\ UNCHANGED <<pos, protect, trade_count, sym, decision, price, total_equity,
                   args, position_amt>>
    /\ UNCHANGED <<cycle_vars, reader_vars>>

\* the wrapped call raised: after the delay the next attempt starts from the top
\* of the function, or, when no attempt is left, the exception reaches the caller
\* in main.py, whose except clause logs it (trade_count stays)
retry_on_failure(fn) ==
    /\ pc = raised_pc(fn)
    /\ IF should_retry(attempt, max_retries)
       THEN /\ attempt' = attempt + 1
            /\ calls' = BeforeExecutor(calls)
            /\ pc' = start_pc(fn)
            /\ UNCHANGED <<outcome, events>>
       ELSE /\ Return(failed_outcome(fn),
                      IF via_main THEN {Event("error", failed_outcome(fn))} ELSE {})
            /\ UNCHANGED <<attempt, calls>>
    /\ UNCHANGED <<pos, protect, trade_count, sym, decision, price, total_equity,
                   args, position_amt>>
    /\ UNCHANGED <<cycle_vars, reader_vars>>

---------------------------------------------------------------------------
(* trading/trade_executor.py: open_long, open_short, _set_take_profit_stop_loss *)

\* the protective orders placed where the entry order belongs
entry_pc_protective_first(side) == "place_tp"

\* the step after the leverage block: the entry order
entry_pc(side) == IF side = "BUY" THEN "long_entry" ELSE "short_entry"

\* the call returned to _open_long / _open_short: log_success, trade_count += 1
Opened(evs) ==
    /\ pc' = "done"
    /\ outcome' = "opened"
    /\ trade_count' = trade_count + 1
    /\ events' = events \cup evs \cup {Event("success", "open_success")}

\* the leverage call without its try/except: a failure raises out of the function
ChangeLeverage_raises(side, r) ==
    /\ calls' = Append(calls, Call("setLeverage", side, args.leverage, r))
    /\ events' = IF r = "ok" THEN events
                 ELSE events \cup {Event("error", "leverage_failed")}
    /\ pc' = IF r = "ok"
             THEN (IF side = "BUY" THEN "long_entry" ELSE "short_entry")
             ELSE (IF side = "BUY" THEN "raised_long" ELSE "raised_short")
    /\ UNCHANGED <<pos, protect, trade_count, sym, decision, price, total_equity,
                   args, attempt, position_amt, outcome>>
    /\ UNCHANGED <<cycle_vars, reader_vars>>

\* client.change_leverage inside try/except: a failure is logged and swallowed
ChangeLeverage(side, r) ==
    /\ calls' = Append(calls, Call("setLeverage", side, args.leverage, r))
    /\ events' = IF r = "ok" THEN events
                 ELSE events \cup {Event("warning", "leverage_failed")}
    /\ pc' = entry_pc(side)
    /\ UNCHANGED <<pos, protect, trade_count, sym, decision, price, total_equity,
                   args, attempt, position_amt, outcome>>
    /\ UNCHANGED <<cycle_vars, reader_vars>>

\* after the entry order: the protective orders, when a price is configured
after_entry(take_profit, stop_loss) ==
    IF take_profit # 0 \/ stop_loss # 0
    THEN (IF take_profit # 0 THEN "place_tp" ELSE "place_sl")
    ELSE "done"

\* client.create_market_order and what follows it in open_long / open_short:
\* on success the protective orders or the return; on failure log_error and the
\* exception is raised to retry_on_failure
EntryOrder(fn, side, r) ==
    /\ r \in OrderResults(pos[sym], side, args.quantity)
    /\ calls' = Append(calls, Call("marketOrder", side, args.quantity, r))
    /\ pos' = IF r = "ok"
              THEN [pos EXCEPT ![sym] = Filled(pos[sym], side, args.quantity)]
              ELSE pos
    /\ IF r = "ok"
       THEN IF after_entry(args.take_profit, args.stop_loss) = "done"
            THEN Opened({Event("success", "entry_filled")})
            ELSE /\ pc' = after_entry(args.take_profit, args.stop_loss)
                 /\ events' = events \cup {Event("success", "entry_filled")}
                 /\ UNCHANGED <<outcome, trade_count>>
       ELSE /\ pc' = raised_pc(fn)
            /\ events' = events \cup {Event("error", "entry_failed")}
            /\ UNCHANGED <<outcome, trade_count>>
    /\ UNCHANGED <<protect, sym, decision, price, total_equity, args, attempt,
                   position_amt>>
    /\ UNCHANGED <<cycle_vars, reader_vars>>

open_long_leverage(r) == pc = "long_leverage" /\ ChangeLeverage("BUY", r)

open_short_leverage(r) == pc = "short_leverage" /\ ChangeLeverage("SELL", r)

open_long_entry(r) == pc = "long_entry" /\ EntryOrder("open_long", "BUY", r)

open_short_entry(r) == pc = "short_entry" /\ EntryOrder("open_short", "SELL", r)

\* the side of a protective order: opposite to the entry
protective_side(side) == IF side = "BUY" THEN "SELL" ELSE "BUY"

\* what BinanceClient.set_take_profit_stop_loss logs before it raises again: an
\* error for the exchange's API exception, nothing for any other exception
client_log(r) ==
    IF r = "api_error" THEN {Event("error", "client_tpsl_failed")} ELSE {}

\* client.set_take_profit_stop_loss, the take-profit order; a failure raises out
\* of the client and _set_take_profit_stop_loss logs it as a warning
place_take_profit(r) ==
    /\ pc = "place_tp"
    /\ calls' = Append(calls, Call("placeConditional:TAKE_PROFIT",
                                   protective_side(args.side), args.take_profit, r))
    /\ IF r = "ok"
       THEN /\ protect' = [protect EXCEPT ![sym] = @ \cup {"TP"}]
            /\ IF args.stop_loss # 0
               THEN /\ pc' = "place_sl"
                    /\ UNCHANGED <<outcome, trade_count, events>>
               ELSE Opened({})
       ELSE /\ UNCHANGED protect
            /\ Opened(client_log(r) \cup {Event("warning", "tpsl_failed")})
    /\ UNCHANGED <<pos, sym, decision, price, total_equity, args, attempt, position_amt>>
    /\ UNCHANGED <<cycle_vars, reader_vars>>

\* the stop-loss order with its failure raised out of open_long / open_short
place_stop_loss_raises(r) ==
    /\ pc = "place_sl"
    /\ calls' = Append(calls, Call("placeConditional:STOP_LOSS",
                                   protective_side(args.side), args.stop_loss, r))
    /\ IF r = "ok"
       THEN /\ protect' = [protect EXCEPT ![sym] = @ \cup {"SL"}]
            /\ Opened({})
       ELSE /\ UNCHANGED <<protect, outcome, trade_count>>
            /\ pc' = IF args.side = "BUY" THEN "raised_long" ELSE "raised_short"
            /\ events' = events \cup client_log(r) \cup {Event("error", "entry_failed")}
    /\ UNCHANGED <<pos, sym, decision, price, total_equity, args, attempt, position_amt>>
    /\ UNCHANGED <<cycle_vars, reader_vars>>

\* client.set_take_profit_stop_loss, the stop-loss order
place_stop_loss(r) ==
    /\ pc = "place_sl"
    /\ calls' = Append(calls, Call("placeConditional:STOP_LOSS",
                                   protective_side(args.side), args.stop_loss, r))
    /\ IF r = "ok"
       THEN /\ protect' = [protect EXCEPT ![sym] = @ \cup {"SL"}]
            /\ Opened({})
       ELSE /\ UNCHANGED protect
            /\ Opened(client_log(r) \cup {Event("warning", "tpsl_failed")})
    /\ UNCHANGED <<pos, sym, decision, price, total_equity, args, attempt, position_amt>>
    /\ UNCHANGED <<cycle_vars, reader_vars>>

---------------------------------------------------------------------------
(* trading/trade_executor.py: close_position, called by _close_position *)

\* the call returned: to _close_position, which logs the success and counts the
\* trade, or to the caller of force_close_position
Closed(result, evs) ==
    /\ pc' = "done"
    /\ outcome' = result
    /\ trade_count' = IF via_main THEN trade_count + 1 ELSE trade_count
    /\ events' = IF via_main
                 THEN events \cup evs \cup {Event("success", "close_success")}
                 ELSE events \cup evs

\* an exception in close_position: log_error, raised to retry_on_failure
CloseRaised ==
    /\ pc' = "raised_close"
    /\ events' = events \cup {Event("error", "close_position_failed")}
    /\ UNCHANGED <<outcome, trade_count>>

\* client.get_position: the record with a non-zero amount, None when there is
\* none or when the exchange answers with an API error; any other failure raises
close_position_read(r) ==
    /\ pc = "close_read"
    /\ LET position == IF r = "ok" THEN pos[sym] ELSE 0
       IN  /\ calls' = Append(calls, Call("getPosition", "-", position, r))
           /\ IF r = "net_error"
              THEN /\ CloseRaised
                   /\ UNCHANGED position_amt
              ELSE IF position = 0
              THEN /\ Closed("closed_nothing", {Event("warning", "no_position")})
                   /\ UNCHANGED position_amt
              ELSE /\ position_amt' = position
                   /\ pc' = "close_cancel"
                   /\ UNCHANGED <<outcome, trade_count, events>>
    /\ UNCHANGED <<pos, protect, sym, decision, price, total_equity, args, attempt>>
    /\ UNCHANGED <<cycle_vars, reader_vars>>

\* client.cancel_all_orders inside try/except: a failure is logged and swallowed
close_position_cancel(r) ==
    /\ pc = "close_cancel"
    /\ calls' = Append(calls, Call("cancelAllOrders", "-", 0, r))
    /\ protect' = IF r = "ok" THEN [protect EXCEPT ![sym] = {}] ELSE protect
    /\ events' = IF r = "ok" THEN events
                 ELSE events \cup {Event("warning", "cancel_failed")}
    /\ pc' = "close_order"
    /\ UNCHANGED <<pos, trade_count, sym, decision, price, total_equity, args,
                   attempt, position_amt, outcome>>
    /\ UNCHANGED <<cycle_vars, reader_vars>>

\* the closing side taken the wrong way round
close_side_same_direction(amt) == IF amt > 0 THEN "BUY" ELSE "SELL"

close_side(amt) == IF amt > 0 THEN "SELL" ELSE "BUY"

close_amount(amt) == IF amt < 0 THEN -amt ELSE amt

\* the closing market order
close_position_order(r) ==
    /\ pc = "close_order"
    /\ LET side == close_side(position_amt)
           amount == close_amount(position_amt)
       IN  /\ r \in OrderResults(pos[sym], side, amount)
           /\ calls' = Append(calls, Call("marketOrder", side, amount, r))
           /\ pos' = IF r = "ok"
                     THEN [pos EXCEPT ![sym] = Filled(pos[sym], side, amount)]
                     ELSE pos
           /\ IF r = "ok"
              THEN Closed("closed", {})
              ELSE CloseRaised
    /\ UNCHANGED <<protect, sym, decision, price, total_equity, args, attempt,
                   position_amt>>
    /\ UNCHANGED <<cycle_vars, reader_vars>>

---------------------------------------------------------------------------
(* The exchange *)

\* a resting take-profit or stop-loss order (closePosition=True) fires: the
\* position is closed and the conditional orders of the symbol are gone
exchange_trigger(s) ==
    /\ pos[s] # 0
    /\ protect[s] # {}
    /\ pos' = [pos EXCEPT ![s] = 0]
    /\ protect' = [protect EXCEPT ![s] = {}]
    /\ UNCHANGED <<trade_count, pc, sym, decision, price, total_equity, args,
                   attempt, position_amt, calls, events, outcome>>
    /\ UNCHANGED <<cycle_vars, reader_vars>>

---------------------------------------------------------------------------

CallResults == {"ok", "fail"}
ProtectResults == {"ok", "fail", "api_error"}
OrderOutcomes == {"ok", "rejected"}
ReadResults == {"ok", "api_error", "net_error"}
ExecutorCalls == {"open_long", "open_short", "close_position"}

Next ==
    \/ \E s \in Symbols, ok \in BOOLEAN, d \in Decisions, p \in PriceInputs :
          analyze_with_ai(s, ok, d, p)
    \/ run_cycle_continue
    \/ execute_decision
    \/ \E r \in CallResults, e \in EquityInputs : get_account_summary(r, e)
    \/ \E r \in CallResults : open_long_request(r)
    \/ \E r \in CallResults : open_short_request(r)
    \/ \E r \in CallResults : open_long_leverage(r)
    \/ \E r \in CallResults : open_short_leverage(r)
    \/ \E r \in OrderOutcomes : open_long_entry(r)
    \/ \E r \in OrderOutcomes : open_short_entry(r)
    \/ \E r \in ProtectResults : place_take_profit(r)
    \/ \E r \in ProtectResults : place_stop_loss(r)
    \/ \E r \in ReadResults : close_position_read(r)
    \/ \E r \in CallResults : close_position_cancel(r)
    \/ \E r \in OrderOutcomes : close_position_order(r)
    \/ \E fn \in ExecutorCalls : retry_on_failure(fn)
    \/ \E s \in Symbols : exchange_trigger(s)

Spec == Init /\ [][Next]_vars

\* a step of the execute_decision in progress: each collaborator call returns or
\* raises, and the code after it runs
ExecutionStep == pc # "idle" /\ Next /\ pc' # pc

\* the decisions followed to their return: confident and not, of one size and
\* one leverage
FollowedDecisions ==
    {d \in Decisions :
        /\ d.confidence \in {StrConf(<<"H", "I", "G", "H">>),
                             StrConf(<<" ", "l", "o", "w", " ">>)}
        /\ d.position_percent = 10
        /\ (d.action \in {"BUY_OPEN", "SELL_OPEN"} => d.leverage = 5)}

FollowedNext ==
    Next /\ (pc = "idle" => decision' \in FollowedDecisions \cup {default_decision})

\* the controller when no call hangs
FairSpec == Init /\ [][FollowedNext]_vars /\ WF_vars(ExecutionStep)

\* Ctrl+C: KeyboardInterrupt is raised where the main thread stands.  The except
\* clauses of the executor and of main.py name Exception, which it is not, so
\* the running calls are left as they are; run catches it and calls shutdown,
\* which logs the counters and returns, and the process exits.
KeyboardInterrupt ==
    /\ pc # "stopped"
    /\ pc' = "stopped"
    /\ events' = events \cup {Event("warning", "interrupted")}
    /\ UNCHANGED <<pos, protect, trade_count, sym, decision, price, total_equity,
                   args, attempt, position_amt, calls, outcome>>
    /\ UNCHANGED <<cycle_vars, reader_vars>>

\* open decisions whose leverage lies outside 1..100
OutOfRangeDecisions ==
    [ action : {"BUY_OPEN", "SELL_OPEN"},
      confidence : {StrConf(<<"H", "I", "G", "H">>)},
      leverage : {0, 101},
      position_percent : {10},
      take_profit_percent : {5},
      stop_loss_percent : {-2} ]

\* the controller fed, besides the decisions of Spec, with those decisions
LeverageSpec ==
    Init /\ [][\/ Next
               \/ \E s \in Symbols, p \in PriceInputs, d \in OutOfRangeDecisions :
                     analyze_with_ai(s, TRUE, d, p)]_vars

\* open decisions carrying take-profit and stop-loss percentages of either sign
SignedPercentDecisions ==
    [ action : {"BUY_OPEN", "SELL_OPEN"},
      confidence : {StrConf(<<"H", "I", "G", "H">>)},
      leverage : {5},
      position_percent : {10},
      take_profit_percent : {-5, 5},
      stop_loss_percent : {-2, 2} ]

\* the controller fed, besides the decisions of Spec, with those decisions
ProtectiveSpec ==
    Init /\ [][\/ Next
               \/ \E s \in Symbols, p \in PriceInputs, d \in SignedPercentDecisions :
                     analyze_with_ai(s, TRUE, d, p)]_vars

\* a forced close sent through execute_decision
force_close_entry_gated == "execute"

\* `return self.close_position(symbol)`
force_close_entry == "close_read"

\* TradeExecutor.force_close_position(symbol, reason): log_error, then the
\* decorated close_position
force_close_position(s) ==
    /\ pc = "idle"
    /\ sym' = s
    /\ decision' = forced_close
    /\ attempt' = 1
    /\ outcome' = "running"
    /\ calls' = <<>>
    /\ events' = events \cup {Event("error", "force_close")}
    /\ pc' = force_close_entry
    /\ UNCHANGED <<pos, protect, trade_count, price, total_equity, args,
                   position_amt>>
    /\ UNCHANGED <<cycle_vars, reader_vars>>

\* the controller and a risk monitor that may force a symbol closed
ForceCloseSpec ==
    Init /\ [][Next \/ \E s \in Symbols : force_close_position(s)]_vars

\* the controller with an operator who may interrupt it at any point
InterruptSpec == Init /\ [][Next \/ KeyboardInterrupt]_vars

---------------------------------------------------------------------------
(* main.py: save_decision and the decision history *)

\* the controller left aside: no execute_decision is running
controller_idle ==
    /\ pos = [s \in Symbols |-> 0]
    /\ protect = [s \in Symbols |-> {}]
    /\ trade_count = 0
    /\ pc = "idle"
    /\ sym = "BTCUSDT"
    /\ decision = default_decision
    /\ price = 0
    /\ total_equity = 0
    /\ args = NoArgs
    /\ attempt = 0
    /\ position_amt = 0
    /\ calls = <<>>
    /\ events = {}
    /\ outcome = "none"

\* "if len(self.decision_history) > 100" and the slice [-100:]
history_limit == 100

\* the slice kept from the wrong end: the oldest records stay
keep_recent_from_front(history) ==
    IF Len(history) > history_limit THEN SubSeq(history, 1, history_limit)
    ELSE history

\* self.decision_history[-100:] once the list is longer than 100
keep_recent(history) ==
    IF Len(history) > history_limit
    THEN SubSeq(history, Len(history) - history_limit + 1, Len(history))
    ELSE history

\* the record save_decision builds: its timestamp, the symbol and the decision
decision_record(s, d) == [timestamp |-> clock + 1, symbol |-> s, action |-> d.action]

\* save_decision: append the record, keep the most recent 100
save_decision(s, d) ==
    /\ decision_history' = keep_recent(Append(decision_history, decision_record(s, d)))
    /\ clock' = clock + 1

\* a history as n saves leave it: the records of the last 100 of them
HistoryAfter(n) ==
    LET first == IF n > history_limit THEN n - history_limit + 1 ELSE 1
    IN  [i \in 1..(n - first + 1) |->
            [timestamp |-> first + i - 1,
             symbol |-> IF (first + i - 1) % 2 = 1 THEN "BTCUSDT" ELSE "ETHUSDT",
             action |-> "HOLD"]]

\* the numbers of saves the history starts from
SavedBefore == {0, 98, 99, 100}

HistoryInit ==
    /\ controller_idle
    /\ reader_idle
    /\ symbols = <<>>
    /\ phase = "off"
    /\ todo = <<>>
    /\ decided = <<>>
    /\ handled = {}
    /\ \E n \in SavedBefore :
          /\ clock = n
          /\ decision_history = HistoryAfter(n)

\* one call of save_decision, for any symbol and decision
save_decision_call(s, d) ==
    /\ \/ clock < MaxSaves
       \/ clock >= 98 /\ clock < history_limit + MaxSaves
    /\ save_decision(s, d)
    /\ UNCHANGED <<symbols, phase, todo, decided, handled>>
    /\ UNCHANGED <<controller_vars, reader_vars>>

HistoryNext ==
    \E s \in Symbols, a \in {"HOLD", "BUY_OPEN"} :
        save_decision_call(s, [default_decision EXCEPT !.action = a])

HistorySpec == HistoryInit /\ [][HistoryNext]_vars

---------------------------------------------------------------------------
(* main.py: run and run_cycle, the pass over the configured symbols.  Here  *)
(* execute_decision is one step: what it does inside is the controller's    *)
(* part above.                                                              *)

\* the symbol lists the configuration may hold: one symbol takes the
\* single-symbol path of run_cycle, several the batched path
ConfiguredSymbols == { <<"BTCUSDT">>, <<"BTCUSDT", "ETHUSDT">> }

\* a symbol the AI may name although it is not configured
UnconfiguredSymbol == "DOGEUSDT"

Range(seq) == {seq[i] : i \in DOMAIN seq}

\* the decisions of a pass: one per action
PassDecisions ==
    {d \in Decisions : /\ d.confidence = StrConf(<<"H", "I", "G", "H">>)
                       /\ d.leverage = 1
                       /\ d.position_percent = 10}

\* DecisionParser.parse_multi_symbol_response(content): it is given the text
\* only, and returns one decision per symbol the text is keyed by, in the
\* order of the text
BatchKeys ==
    LET named == Symbols \cup {UnconfiguredSymbol}
    IN  {<<>>} \cup {<<a>> : a \in named}
        \cup {k \in named \X named : k[1] # k[2]}

parse_multi_symbol_response(keys, ds) ==
    [i \in DOMAIN keys |-> [symbol |-> keys[i], decision |-> ds[i]]]

\* how an execute_decision that returned has ended
ExecutionOutcomes ==
    {"hold", "low_confidence", "no_account", "risk_rejected", "open_failed",
     "opened", "closed", "close_failed"}

CycleInit ==
    /\ controller_idle
    /\ reader_idle
    /\ symbols \in ConfiguredSymbols
    /\ phase = "sleep"
    /\ todo = <<>>
    /\ decided = <<>>
    /\ handled = {}
    /\ decision_history = <<>>
    /\ clock = 0

\* run_cycle, batched path (len(symbols) > 1): the data of every symbol is
\* collected, then analyze_all_symbols_with_ai returns the parsed decisions, or
\* {} when the AI call or the parse raised; the loop goes over its items
run_cycle_batched(ok, keys, ds) ==
    /\ phase = "sleep"
    /\ Len(symbols) > 1
    /\ decided' = IF ok THEN parse_multi_symbol_response(keys, ds) ELSE <<>>
    /\ todo' = IF ok THEN keys ELSE <<>>
    /\ handled' = {}
    /\ phase' = "execute"
    /\ UNCHANGED <<symbols, decision_history, clock>>
    /\ UNCHANGED <<controller_vars, reader_vars>>

\* run_cycle, single-symbol path: the loop goes over the configured symbols
run_cycle_single ==
    /\ phase = "sleep"
    /\ Len(symbols) <= 1
    /\ clock + Len(symbols) <= MaxSaves
    /\ todo' = symbols
    /\ decided' = <<>>
    /\ handled' = {}
    /\ phase' = IF symbols = <<>> THEN "execute" ELSE "decide"
    /\ UNCHANGED <<symbols, decision_history, clock>>
    /\ UNCHANGED <<controller_vars, reader_vars>>

\* single-symbol path, one symbol: get_market_data_for_symbol, analyze_with_ai
\* (the default decision when the AI call or the parse raised), save_decision
decide_single(ok, d) ==
    /\ phase = "decide"
    /\ LET s == Head(todo)
           dec == IF ok THEN d ELSE default_decision
       IN  /\ decided' = Append(decided, [symbol |-> s, decision |-> dec])
           /\ save_decision(s, dec)
    /\ phase' = "execute"
    /\ UNCHANGED <<symbols, todo, handled>>
    /\ UNCHANGED <<controller_vars, reader_vars>>

\* the decision the pass holds for the symbol at the head of the loop
decision_of(s) ==
    LET i == CHOOSE i \in DOMAIN decided : decided[i].symbol = s
    IN  decided[i].decision

\* the next item of the loop: all_symbols_data[symbol] in the batched path (a
\* KeyError for a symbol that was not collected, which nothing in run_cycle or
\* run catches), then execute_decision, which returns however it ended
execute_next(result) ==
    /\ phase = "execute"
    /\ todo # <<>>
    /\ LET s == Head(todo)
       IN  IF Len(symbols) > 1 /\ s \notin Range(symbols)
           THEN /\ phase' = "crashed"
                /\ UNCHANGED <<todo, handled>>
           ELSE /\ handled' = handled \cup
                       {[symbol |-> s, action |-> decision_of(s).action,
                         result |-> result]}
                /\ todo' = Tail(todo)
                /\ phase' = IF Len(symbols) <= 1 /\ Tail(todo) # <<>>
                            THEN "decide" ELSE "execute"
    /\ UNCHANGED <<symbols, decided, decision_history, clock>>
    /\ UNCHANGED <<controller_vars, reader_vars>>

\* run_cycle returns to run, which sleeps until the next cycle
run_cycle_return ==
    /\ phase = "execute"
    /\ todo = <<>>
    /\ phase' = "sleep"
    /\ UNCHANGED <<symbols, todo, decided, handled, decision_history, clock>>
    /\ UNCHANGED <<controller_vars, reader_vars>>

CycleNext ==
    \/ \E ok \in BOOLEAN, keys \in BatchKeys :
          \E ds \in [DOMAIN keys -> PassDecisions] : run_cycle_batched(ok, keys, ds)
    \/ run_cycle_single
    \/ \E ok \in BOOLEAN, d \in PassDecisions : decide_single(ok, d)
    \/ \E result \in ExecutionOutcomes : execute_next(result)
    \/ run_cycle_return

CycleSpec == CycleInit /\ [][CycleNext]_vars

---------------------------------------------------------------------------
(* data/position_data.py: get_current_position applied to what the client   *)
(* returned.  Amounts are in hundredths, prices in whole USDT, pnl_percent  *)
(* in whole percent.                                                        *)

\* a field of the exchange's record: a number (as a numeric string), a value
\* float() or int() cannot parse, or no such key
Num(n) == [kind |-> "num", value |-> n]
Unparsable == [kind |-> "bad", value |-> 0]
Missing == [kind |-> "missing", value |-> 0]

\* position.get(key, default) handed to float() / int()
parses(field) == field.kind # "bad"
field_value(field, default) == IF field.kind = "num" THEN field.value ELSE default

Abs(n) == IF n < 0 THEN -n ELSE n

\* the records client.get_position may return for a symbol, and its other
\* answers: None (no position, or an API error), or an exception
RawPositions ==
    [ fetched : {"record"},
      positionAmt : {Num(-2), Num(-1), Num(0), Num(1), Num(2), Unparsable, Missing},
      entryPrice : {Num(0), Num(100), Num(200), Unparsable},
      markPrice : {Num(100), Num(150), Num(200)},
      leverage : {Num(0), Num(10), Missing} ]
    \cup
    [ fetched : {"none", "raises"},
      positionAmt : {Missing}, entryPrice : {Missing}, markPrice : {Missing},
      leverage : {Missing} ]

\* get_current_position returning None
NoPosition ==
    [ called |-> TRUE, present |-> FALSE, side |-> "-", amount |-> 0,
      entry_price |-> 0, mark_price |-> 0, leverage |-> 0, margin |-> 0,
      pnl_percent |-> 0, notional |-> 0 ]

NotCalled == [NoPosition EXCEPT !.called = FALSE]

\* side = 'LONG' if amount > 0 else 'SHORT'
position_side(amount) == IF amount > 0 THEN "LONG" ELSE "SHORT"

\* the profit of a short computed like that of a long
pnl_percent_as_long(side, entry_price, mark_price) ==
    IF entry_price > 0
    THEN ((mark_price - entry_price) * 100) \div entry_price
    ELSE 0

\* the signed profit in percent of the entry price, 0.0 without an entry price
pnl_percent_of(side, entry_price, mark_price) ==
    IF entry_price > 0
    THEN IF side = "LONG"
         THEN ((mark_price - entry_price) * 100) \div entry_price
         ELSE ((entry_price - mark_price) * 100) \div entry_price
    ELSE 0

\* the body of get_current_position for the client's answer r
position_of(r) ==
    IF r.fetched # "record" THEN NoPosition
    ELSE IF ~(parses(r.positionAmt) /\ parses(r.entryPrice) /\ parses(r.markPrice)
              /\ parses(r.leverage))
    THEN NoPosition
    ELSE LET amount == field_value(r.positionAmt, 0)
             entry_price == field_value(r.entryPrice, 0)
             mark_price == field_value(r.markPrice, 0)
             leverage == field_value(r.leverage, 1)
             side == position_side(amount)
         IN  IF amount = 0 THEN NoPosition
             ELSE [ called |-> TRUE, present |-> TRUE, side |-> side,
                    amount |-> Abs(amount),
                    entry_price |-> entry_price, mark_price |-> mark_price,
                    leverage |-> leverage,
                    margin |-> IF leverage > 0
                               THEN Abs((amount * entry_price) \div leverage)
                               ELSE 0,
                    pnl_percent |-> pnl_percent_of(side, entry_price, mark_price),
                    notional |-> Abs(amount * mark_price) ]

PositionInit ==
    /\ controller_idle
    /\ cycle_idle
    /\ raw \in RawPositions
    /\ derived = NotCalled

\* one call of get_current_position
position_read ==
    /\ ~derived.called
    /\ derived' = position_of(raw)
    /\ UNCHANGED raw
    /\ UNCHANGED <<controller_vars, cycle_vars>>

PositionSpec == PositionInit /\ [][position_read]_vars

----------------------------------------------------------------------------
\* AccountDataManager.get_account_summary on the payload of client.get_account.
\* Amounts are whole USDT; each fallback field has its own positive value, so
\* that the summary shows which field was taken.

\* the payloads client.get_account may return, and its other answers: None
\* (an API error) or an exception
RawAccounts ==
    [ fetched : {"record"},
      totalWalletBalance : {Num(0), Missing, Num(100), Num(-100), Unparsable},
      totalMarginBalance : {Num(0), Missing, Num(110), Num(-110), Unparsable},
      totalCrossWalletBalance : {Num(0), Missing, Num(120), Unparsable},
      availableBalance : {Num(0), Num(130), Unparsable},
      walletBalance : {Missing, Num(140), Num(-140), Unparsable},
      totalInitialMargin : {Num(0), Num(50)} ]
    \cup
    [ fetched : {"none", "raises"},
      totalWalletBalance : {Missing}, totalMarginBalance : {Missing},
      totalCrossWalletBalance : {Missing}, availableBalance : {Missing},
      walletBalance : {Missing}, totalInitialMargin : {Missing} ]

\* get_account_summary returning None
NoSummary ==
    [ called |-> TRUE, present |-> FALSE, total_balance |-> 0,
      available_balance |-> 0, used_margin |-> 0, equity |-> 0,
      margin_ratio |-> 0, consulted |-> <<>> ]

NotRead == [NoSummary EXCEPT !.called = FALSE]

\* the loop with the wallet balance tried first
fallback_keys_reversed ==
    <<"walletBalance", "availableBalance", "totalCrossWalletBalance",
      "totalMarginBalance">>

\* the fields tried when totalWalletBalance reads zero, in the order of the loop
fallback_keys ==
    <<"totalMarginBalance", "totalCrossWalletBalance", "availableBalance",
      "walletBalance">>

\* the loop over fallback_keys from index i: the fields it read, the balance it
\* chose (0 when it chose none), and whether float() raised on one of them
RECURSIVE fallback_from(_, _, _)
fallback_from(account, i, seen) ==
    IF i > Len(fallback_keys)
    THEN [raised |-> FALSE, balance |-> 0, consulted |-> seen]
    ELSE LET key == fallback_keys[i]
             val == account[key]
             read == Append(seen, key)
         IN  IF val.kind = "missing" THEN fallback_from(account, i + 1, read)
             ELSE IF val.kind = "bad"
             THEN [raised |-> TRUE, balance |-> 0, consulted |-> read]
             ELSE IF val.value > 0
             THEN [raised |-> FALSE, balance |-> val.value, consulted |-> read]
             ELSE fallback_from(account, i + 1, read)

\* _calculate_margin_ratio: used margin in percent of totalWalletBalance, 0.0
\* for a zero balance and when a field does not parse
calculate_margin_ratio(account) ==
    IF ~parses(account.totalWalletBalance) THEN 0
    ELSE IF field_value(account.totalWalletBalance, 0) = 0 THEN 0
    ELSE IF ~parses(account.totalInitialMargin) THEN 0
    ELSE (field_value(account.totalInitialMargin, 0) * 100)
            \div field_value(account.totalWalletBalance, 0)

\* the body of get_account_summary for the client's answer r
account_summary_of(r) ==
    IF r.fetched # "record" THEN NoSummary
    ELSE IF ~(parses(r.totalWalletBalance) /\ parses(r.availableBalance))
    THEN NoSummary
    ELSE LET primary == field_value(r.totalWalletBalance, 0)
             loop == IF primary = 0 THEN fallback_from(r, 1, <<>>)
                     ELSE [raised |-> FALSE, balance |-> 0, consulted |-> <<>>]
             total_balance == IF primary = 0 THEN loop.balance ELSE primary
         IN  IF loop.raised \/ ~parses(r.totalInitialMargin)
                \/ ~parses(r.totalMarginBalance)
             THEN NoSummary
             ELSE [ called |-> TRUE, present |-> TRUE,
                    total_balance |-> total_balance,
                    available_balance |-> field_value(r.availableBalance, 0),
                    used_margin |-> field_value(r.totalInitialMargin, 0),
                    equity |-> field_value(r.totalMarginBalance, total_balance),
                    margin_ratio |-> calculate_margin_ratio(r),
                    consulted |-> loop.consulted ]

AccountInit ==
    /\ controller_idle
    /\ cycle_idle
    /\ raw \in RawAccounts
    /\ derived = NotRead

\* one call of get_account_summary
account_read ==
    /\ ~derived.called
    /\ derived' = account_summary_of(raw)
    /\ UNCHANGED raw
    /\ UNCHANGED <<controller_vars, cycle_vars>>

AccountSpec == AccountInit /\ [][account_read]_vars

----------------------------------------------------------------------------
\* utils/confidence_converter.py applied to any value: to a float, back to a
\* category, and to a float again.

\* an integer beyond the range of a float, as json.loads yields for a literal of
\* some 400 digits
BigIntConf == [kind |-> "bigint", str |-> <<>>, num |-> 0]

ConfidenceWords ==
    { <<"H", "I", "G", "H">>, <<"h", "i", "g", "h">>, <<"H", "i", "g", "h">>,
      <<"M", "E", "D", "I", "U", "M">>, <<"m", "e", "d", "i", "u", "m">>,
      <<"L", "O", "W">>, <<"l", "o", "w">>, <<"L", "o", "w">>,
      <<"M", "a", "y", "b", "e">>, <<"H", "I", " ", "G", "H">>, <<>> }

Padded(w) == { w, <<" ">> \o w, w \o <<" ">>, <<" ">> \o w \o <<" ", " ">> }

ConfidenceNumbers == {-10, 0, 30, 40, 50, 54, 55, 60, 74, 75, 80, 100, 150}

ConverterInputs ==
    { StrConf(s) : s \in UNION { Padded(w) : w \in ConfidenceWords } }
    \cup { NumConf(n) : n \in ConfidenceNumbers }
    \cup { OtherConf, BigIntConf }

\* float(confidence) raising what `except (ValueError, TypeError)` lets through:
\* OverflowError, for an int too large to convert
to_float_raises(confidence) == confidence.kind = "bigint"

\* a number at or above 0.75 is HIGH, at or above 0.55 MEDIUM, otherwise LOW; a
\* string is upper-cased and stripped; any other value is MEDIUM
convert_confidence_to_string(confidence) ==
    IF confidence.kind = "str" THEN Strip(Upper(confidence.str))
    ELSE IF confidence.kind = "num"
    THEN IF confidence.num >= 75 THEN <<"H", "I", "G", "H">>
         ELSE IF confidence.num >= 55 THEN <<"M", "E", "D", "I", "U", "M">>
         ELSE <<"L", "O", "W">>
    ELSE <<"M", "E", "D", "I", "U", "M">>

NotConverted == [stage |-> "input", float |-> 0, string |-> <<>>, again |-> 0]

ConverterInit ==
    /\ controller_idle
    /\ cycle_idle
    /\ raw \in ConverterInputs
    /\ derived = NotConverted

\* convert_confidence_to_float(x)
to_float_call ==
    /\ derived.stage = "input"
    /\ derived' = IF to_float_raises(raw)
                  THEN [derived EXCEPT !.stage = "raised"]
                  ELSE [derived EXCEPT !.stage = "float",
                                       !.float = convert_confidence_to_float(raw)]
    /\ UNCHANGED raw
    /\ UNCHANGED <<controller_vars, cycle_vars>>

\* convert_confidence_to_string of that float
to_string_call ==
    /\ derived.stage = "float"
    /\ derived' = [derived EXCEPT
                     !.stage = "string",
                     !.string = convert_confidence_to_string(NumConf(derived.float))]
    /\ UNCHANGED raw
    /\ UNCHANGED <<controller_vars, cycle_vars>>

\* convert_confidence_to_float of that category
to_float_again ==
    /\ derived.stage = "string"
    /\ derived' = [derived EXCEPT
                     !.stage = "again",
                     !.again = convert_confidence_to_float(StrConf(derived.string))]
    /\ UNCHANGED raw
    /\ UNCHANGED <<controller_vars, cycle_vars>>

ConverterNext == to_float_call \/ to_string_call \/ to_float_again

ConverterSpec == ConverterInit /\ [][ConverterNext]_vars

----------------------------------------------------------------------------
\* MarketDataManager.get_multi_timeframe_data: one loop iteration per timeframe.

\* the timeframes get_market_data_for_symbol asks for
intervals == <<"5m", "15m", "1h", "4h", "1d">>

\* what happens to one timeframe: a snapshot is built; get_klines returns an
\* empty list (also its answer to an API error); get_klines raises another
\* exception; the frame or its indicators raise
TimeframeOutcomes == {"ok", "empty", "fetch_raises", "indicators_raise"}

NoTimeframes == [stage |-> "loop", next |-> 1, result |-> {}]

\* a loop that lets the exception of a timeframe out
after_interval_unguarded(state, interval, fetched) ==
    IF fetched = "ok"
    THEN [state EXCEPT !.next = @ + 1, !.result = @ \cup {interval}]
    ELSE IF fetched = "empty" THEN [state EXCEPT !.next = @ + 1]
    ELSE [state EXCEPT !.stage = "raised", !.result = {}]

\* the body of the loop for one timeframe: the snapshot is added under its key,
\* an empty answer or an exception moves on to the next timeframe
after_interval(state, interval, fetched) ==
    IF fetched = "ok"
    THEN [state EXCEPT !.next = @ + 1, !.result = @ \cup {interval}]
    ELSE [state EXCEPT !.next = @ + 1]

MarketInit ==
    /\ controller_idle
    /\ cycle_idle
    /\ raw \in [1..Len(intervals) -> TimeframeOutcomes]
    /\ derived = NoTimeframes

\* one iteration of `for interval in intervals`
timeframe_step ==
    /\ derived.stage = "loop"
    /\ derived.next <= Len(intervals)
    /\ derived' = after_interval(derived, intervals[derived.next], raw[derived.next])
    /\ UNCHANGED raw
    /\ UNCHANGED <<controller_vars, cycle_vars>>

\* return result
timeframes_return ==
    /\ derived.stage = "loop"
    /\ derived.next > Len(intervals)
    /\ derived' = [derived EXCEPT !.stage = "returned"]
    /\ UNCHANGED raw
    /\ UNCHANGED <<controller_vars, cycle_vars>>

MarketNext == timeframe_step \/ timeframes_return

MarketSpec == MarketInit /\ [][MarketNext]_vars

----------------------------------------------------------------------------
\* TradeExecutor.close_position_partial(symbol, percentage); the percentage is
\* in hundredths (0.5 is 50), the positions are chosen so that the share closed
\* is a whole number of hundredths.

PartialPositions == {-2, 0, 2}
PartialPercentages == {-50, 0, 50, 100, 150}

\* the check with 0 let through
percentage_in_range_with_zero(percentage) == 0 <= percentage /\ percentage <= 100

\* `0 < percentage <= 1`
percentage_in_range(percentage) == 0 < percentage /\ percentage <= 100

PartialArgs(percentage) ==
    [side |-> "-", quantity |-> 0, leverage |-> 0, take_profit |-> 0,
     stop_loss |-> 0, percentage |-> percentage]

\* close_amount = total_amount * percentage
partial_amount(amt, percentage) == (close_amount(amt) * percentage) \div 100

PartialInit ==
    /\ pos \in [Symbols -> PartialPositions]
    /\ protect = [s \in Symbols |-> {}]
    /\ trade_count = 0
    /\ pc = "idle"
    /\ sym = "BTCUSDT"
    /\ decision = default_decision
    /\ price = 0
    /\ total_equity = 0
    /\ args = NoArgs
    /\ attempt = 0
    /\ position_amt = 0
    /\ calls = <<>>
    /\ events = {}
    /\ outcome = "none"
    /\ cycle_idle
    /\ reader_idle

\* the call: ValueError before the try when the percentage is not in (0, 1]
close_position_partial(s, percentage) ==
    /\ pc = "idle"
    /\ sym' = s
    /\ args' = PartialArgs(percentage)
    /\ calls' = <<>>
    /\ IF percentage_in_range(percentage)
       THEN /\ pc' = "partial_read"
            /\ outcome' = "running"
       ELSE /\ pc' = "done"
            /\ outcome' = "value_error"
    /\ UNCHANGED <<pos, protect, trade_count, decision, price, total_equity,
                   attempt, position_amt, events>>
    /\ UNCHANGED <<cycle_vars, reader_vars>>

\* an exception inside the try: log_error and raise (the method is not retried)
PartialRaised ==
    /\ pc' = "done"
    /\ outcome' = "partial_failed"
    /\ events' = events \cup {Event("error", "partial_close_failed")}

\* client.get_position inside close_position_partial
partial_read(r) ==
    /\ pc = "partial_read"
    /\ LET position == IF r = "ok" THEN pos[sym] ELSE 0
       IN  /\ calls' = Append(calls, Call("getPosition", "-", position, r))
           /\ IF r = "net_error"
              THEN /\ PartialRaised
                   /\ UNCHANGED position_amt
              ELSE IF position = 0
              THEN /\ pc' = "done"
                   /\ outcome' = "closed_nothing"
                   /\ events' = events \cup {Event("warning", "no_position")}
                   /\ UNCHANGED position_amt
              ELSE /\ position_amt' = position
                   /\ pc' = "partial_order"
                   /\ UNCHANGED <<outcome, events>>
    /\ UNCHANGED <<pos, protect, trade_count, sym, decision, price, total_equity,
                   args, attempt>>
    /\ UNCHANGED <<cycle_vars, reader_vars>>

\* the market order for the share
partial_order(r) ==
    /\ pc = "partial_order"
    /\ LET side == close_side(position_amt)
           amount == partial_amount(position_amt, args.percentage)
       IN  /\ r \in OrderResults(pos[sym], side, amount)
           /\ calls' = Append(calls, Call("marketOrder", side, amount, r))
           /\ pos' = IF r = "ok"
                     THEN [pos EXCEPT ![sym] = Filled(pos[sym], side, amount)]
                     ELSE pos
           /\ IF r = "ok"
              THEN /\ pc' = "done"
                   /\ outcome' = "closed_partial"
                   /\ events' = events \cup {Event("success", "partial_close_success")}
              ELSE PartialRaised
    /\ UNCHANGED <<protect, trade_count, sym, decision, price, total_equity, args,
                   attempt, position_amt>>
    /\ UNCHANGED <<cycle_vars, reader_vars>>

PartialNext ==
    \/ \E s \in Symbols, percentage \in PartialPercentages :
          close_position_partial(s, percentage)
    \/ \E r \in ReadResults : partial_read(r)
    \/ \E r \in OrderOutcomes : partial_order(r)

PartialSpec == PartialInit /\ [][PartialNext]_vars

----------------------------------------------------------------------------
\* One pass of run_cycle seen from the account: which account summary each open
\* is sized and gated against, and when it was read.  raw is the account as the
\* exchange holds it, clock counts the exchanges with it, handled collects the
\* opens that reached the risk check; the executor's call sequence is one step.

ExchangeAccounts == [equity : {2000, 5000}, available_balance : {400, 5000}]

\* the decisions of such a pass: opens and HOLD, all confident
PassOpens ==
    {d \in Decisions : /\ d.confidence = StrConf(<<"H", "I", "G", "H">>)
                       /\ d.leverage = 1
                       /\ d.action \in {"BUY_OPEN", "SELL_OPEN", "HOLD"}}

PassPrice == 50000

\* get_account_summary answered at time at
Snapshot(at) ==
    [at |-> at, equity |-> raw.equity, available_balance |-> raw.available_balance]

NoSnapshot == [at |-> 0, equity |-> 0, available_balance |-> 0]

\* execute_decision working with the summary run_cycle displayed at its top
summary_for_decision_shown(fresh, shown) == shown

\* `account_summary = self.account_data.get_account_summary()` in
\* execute_decision: the summary read for this decision
summary_for_decision(fresh, shown) == fresh

\* the arguments _open_long / _open_short hand to check_all_risk_limits
risk_gate_arguments(s, quantity, p, summary) ==
    [symbol |-> s, quantity |-> quantity, price |-> p,
     equity |-> summary.equity, available_balance |-> summary.equity]

PassInit ==
    /\ pos \in [Symbols -> {0}]
    /\ protect = [s \in Symbols |-> {}]
    /\ trade_count = 0
    /\ pc = "idle"
    /\ sym = "BTCUSDT"
    /\ decision = default_decision
    /\ price = PassPrice
    /\ total_equity = 0
    /\ args = NoArgs
    /\ attempt = 0
    /\ position_amt = 0
    /\ calls = <<>>
    /\ events = {}
    /\ outcome = "none"
    /\ symbols \in {s \in ConfiguredSymbols : Len(s) > 1}
    /\ phase = "sleep"
    /\ todo = <<>>
    /\ decided = <<>>
    /\ handled = {}
    /\ decision_history = <<>>
    /\ clock = 0
    /\ raw \in ExchangeAccounts
    /\ derived = [shown |-> NoSnapshot, summary |-> NoSnapshot]

\* run_cycle up to its loop: the summary it displays, the data of the symbols,
\* the decisions of analyze_all_symbols_with_ai
pass_start(ds) ==
    /\ phase = "sleep"
    /\ clock' = clock + 1
    /\ derived' = [shown |-> Snapshot(clock + 1), summary |-> NoSnapshot]
    /\ decided' = [i \in DOMAIN symbols |-> [symbol |-> symbols[i], decision |-> ds[i]]]
    /\ todo' = symbols
    /\ handled' = {}
    /\ phase' = "execute"
    /\ UNCHANGED <<symbols, decision_history, raw>>
    /\ UNCHANGED controller_vars

\* execute_decision for the next item, up to the dispatch: the confidence gate
\* (passed), the account summary (None when the read fails), the price
pass_account(r) ==
    /\ phase = "execute"
    /\ todo # <<>>
    /\ clock' = clock + 1
    /\ IF r = "ok"
       THEN /\ derived' = [derived EXCEPT
                             !.summary = summary_for_decision(Snapshot(clock + 1),
                                                              derived.shown)]
            /\ phase' = "open"
            /\ UNCHANGED todo
       ELSE /\ todo' = Tail(todo)
            /\ UNCHANGED <<derived, phase>>
    /\ UNCHANGED <<symbols, decided, handled, decision_history, raw>>
    /\ UNCHANGED controller_vars

\* the rest of execute_decision: nothing for HOLD; for an open the equity and
\* position checks, the sizing, the risk check and, when it passes, the
\* executor call, whose entry order fills or fails
pass_open(r) ==
    /\ phase = "open"
    /\ LET s == Head(todo)
           d == decision_of(s)
           equity == derived.summary.equity
           quantity == order_quantity(equity, d.position_percent, price)
           gate == risk_gate_arguments(s, quantity, price, derived.summary)
           verdict == check_all_risk_limits(gate.symbol, gate.quantity, gate.price,
                                            gate.equity, gate.available_balance)
           side == IF d.action = "BUY_OPEN" THEN "BUY" ELSE "SELL"
           margin == (quantity * price) \div 100
           fills == r = "ok" /\ margin <= raw.available_balance
       IN  IF d.action = "HOLD" \/ equity <= 0 \/ pos[s] # 0 \/ quantity <= 0
           THEN UNCHANGED <<pos, raw, clock, handled>>
           ELSE IF ~risk_check_passed(verdict)
           THEN /\ handled' = handled \cup
                       {[symbol |-> s, summary |-> derived.summary, gate |-> gate,
                         passed |-> FALSE, filled |-> FALSE, completed_at |-> clock]}
                /\ UNCHANGED <<pos, raw, clock>>
           ELSE /\ clock' = clock + 1
                /\ handled' = handled \cup
                       {[symbol |-> s, summary |-> derived.summary, gate |-> gate,
                         passed |-> TRUE, filled |-> fills,
                         completed_at |-> clock + 1]}
                /\ pos' = IF fills
                          THEN [pos EXCEPT ![s] = Filled(pos[s], side, quantity)]
                          ELSE pos
                /\ raw' = IF fills
                          THEN [raw EXCEPT !.available_balance = @ - margin]
                          ELSE raw
    /\ todo' = Tail(todo)
    /\ phase' = "execute"
    /\ UNCHANGED <<symbols, decided, decision_history, derived>>
    /\ UNCHANGED <<protect, trade_count, pc, sym, decision, price, total_equity,
                   args, attempt, position_amt, calls, events, outcome>>

\* the loop is over and run_cycle returns
pass_return ==
    /\ phase = "execute"
    /\ todo = <<>>
    /\ phase' = "returned"
    /\ UNCHANGED <<symbols, todo, decided, handled, decision_history, clock>>
    /\ UNCHANGED <<controller_vars, reader_vars>>

PassNext ==
    \/ \E ds \in [1..2 -> PassOpens] : pass_start(ds)
    \/ \E r \in CallResults : pass_account(r)
    \/ \E r \in OrderOutcomes : pass_open(r)
    \/ pass_return

PassSpec == PassInit /\ [][PassNext]_vars

----------------------------------------------------------------------------
\* MarketDataManager._calculate_indicators on a frame of n candles whose last
\* close is p.  A value computed from the candles is not modelled beyond the
\* fact that it was computed; a default is modelled with its value.

CandleCounts == 1..60
ClosePrices == {100, 200}

Computed == [kind |-> "computed", value |-> 0]
Default(v) == [kind |-> "default", value |-> v]

\* utils/indicators.py: each function returns None below its window
rsi_window(period) == period + 1
macd_window(slow, signal) == slow + signal
atr_window(period) == period + 1

\* the keys _calculate_indicators assigns for n candles
indicator_keys(n) ==
    {"rsi", "macd", "macd_signal", "macd_histogram", "ema_20", "ema_50",
     "sma_20", "sma_50", "bollinger_middle", "bollinger_upper",
     "bollinger_lower", "atr_14"}
    \cup (IF n >= 20 THEN {"volume_ratio", "avg_volume"} ELSE {})

\* the value under key k
indicator_value(k, n, p) ==
    CASE k = "rsi" -> IF n >= rsi_window(14) THEN Computed ELSE Default(50)
      [] k \in {"macd", "macd_signal", "macd_histogram"} ->
            IF n >= macd_window(26, 9) THEN Computed ELSE Default(0)
      [] k \in {"ema_20", "sma_20", "bollinger_middle"} ->
            IF n >= 20 THEN Computed ELSE Default(p)
      [] k \in {"ema_50", "sma_50"} ->
            IF n >= 50 THEN Computed ELSE Default(p)
      [] k = "bollinger_upper" ->
            IF n >= 20 THEN Computed ELSE Default((p * 102) \div 100)
      [] k = "bollinger_lower" ->
            IF n >= 20 THEN Computed ELSE Default((p * 98) \div 100)
      [] k = "atr_14" ->
            IF n >= atr_window(14) THEN Computed ELSE Default((p * 2) \div 100)
      [] OTHER -> Computed

calculate_indicators(n, p) == [k \in indicator_keys(n) |-> indicator_value(k, n, p)]

IndicatorInit ==
    /\ controller_idle
    /\ cycle_idle
    /\ raw \in [candles : CandleCounts, close : ClosePrices]
    /\ derived = [stage |-> "frame", indicators |-> <<>>]

\* one call of _calculate_indicators
indicators_call ==
    /\ derived.stage = "frame"
    /\ derived' = [stage |-> "returned",
                   indicators |-> calculate_indicators(raw.candles, raw.close)]
    /\ UNCHANGED raw
    /\ UNCHANGED <<controller_vars, cycle_vars>>

IndicatorSpec == IndicatorInit /\ [][indicators_call]_vars

---------------------------------------------------------------------------
(* What the log of the running execute_decision shows *)

TradingOps ==
    {"setLeverage", "marketOrder", "cancelAllOrders",
     "placeConditional:TAKE_PROFIT", "placeConditional:STOP_LOSS"}

ProtectiveOps == {"placeConditional:TAKE_PROFIT", "placeConditional:STOP_LOSS"}

Made(ops) == {i \in DOMAIN calls : calls[i].op \in ops}

NoTradingCall == Made(TradingOps) = {}

NoRiskCheck == Made({"riskCheck"}) = {}

IsOpen == decision.action \in {"BUY_OPEN", "SELL_OPEN"}

ConvertedConfidence == convert_confidence_to_float(decision.confidence)

\* execute_decision has been entered and has passed, or returned at, its gate
PastGate == pc \notin {"idle", "execute"}

---------------------------------------------------------------------------
(* Claims *)

\* C1: no opening market order (BUY_OPEN or SELL_OPEN path) is submitted for a
\* symbol for which the exchange holds a non-zero position at that moment.
C1_NoOpenOnHeldPosition ==
    IsOpen =>
        \A i \in Made({"marketOrder"}) : calls[i].held = 0

\* C2: within an open attempt setLeverage comes before the entry market order
\* and the entry market order before the protective orders, a protective order
\* is placed only after an entry order of the same attempt that succeeded, and
\* within a close attempt cancelAllOrders comes before the closing market order.
C2_SideEffectsOrdered ==
    /\ \A i, j \in DOMAIN calls :
          (i < j /\ calls[i].att = calls[j].att) =>
              /\ ~(calls[i].op \in {"marketOrder"} \cup ProtectiveOps
                     /\ calls[j].op = "setLeverage")
              /\ ~(calls[i].op \in ProtectiveOps /\ calls[j].op = "marketOrder")
              /\ ~(calls[i].op = "marketOrder" /\ calls[j].op = "cancelAllOrders")
    /\ \A j \in Made(ProtectiveOps) :
          \E i \in Made({"marketOrder"}) :
              i < j /\ calls[i].att = calls[j].att /\ calls[i].res = "ok"
    /\ decision.action = "CLOSE" =>
          \A j \in Made({"marketOrder"}) :
              \E i \in Made({"cancelAllOrders"}) :
                  i < j /\ calls[i].att = calls[j].att

\* an open with leverage 5 ran leverage, entry, take-profit, stop-loss
C2_Witness ==
    /\ outcome = "opened"
    /\ Made({"setLeverage"}) # {}
    /\ Made({"placeConditional:TAKE_PROFIT"}) # {}
    /\ Made({"placeConditional:STOP_LOSS"}) # {}

\* C3: an attempt of close_position that read the non-zero signed amount a
\* submits exactly one market order, SELL for a > 0 and BUY for a < 0, of
\* quantity |a|: none before the cancel step is over, one from then on.
C3_CloseOppositeFullAmount ==
    decision.action = "CLOSE" =>
        \A i \in Made({"getPosition"}) :
            calls[i].n # 0 =>
                IF pc \in {"close_cancel", "close_order"}
                THEN Made({"marketOrder"}) = {}
                ELSE /\ Cardinality(Made({"marketOrder"})) = 1
                     /\ \A j \in Made({"marketOrder"}) :
                           /\ j > i
                           /\ calls[j].sym = calls[i].sym
                           /\ calls[j].a = (IF calls[i].n > 0 THEN "SELL" ELSE "BUY")
                           /\ calls[j].n = (IF calls[i].n > 0 THEN calls[i].n
                                            ELSE -calls[i].n)

\* the scenario of the specification: -0.01 read, BUY 0.01 submitted
C3_Witness ==
    /\ outcome = "closed"
    /\ \E i \in Made({"getPosition"}) : calls[i].n = -1
    /\ \E j \in Made({"marketOrder"}) : calls[j].a = "BUY" /\ calls[j].n = 1

\* C4: a decision that is not CLOSE and whose converted confidence is below 0.5
\* makes execute_decision return at the gate: no risk check and no exchange
\* trading call.
C4_LowConfidenceSkipped ==
    (PastGate /\ decision.action # "CLOSE" /\ ConvertedConfidence < 50) =>
        /\ pc = "done"
        /\ outcome = "low_confidence"
        /\ NoRiskCheck
        /\ NoTradingCall

C4_Witness ==
    /\ outcome = "low_confidence"
    /\ decision.action = "BUY_OPEN"
    /\ decision.confidence = StrConf(<<" ", "l", "o", "w", " ">>)

\* C5: the confidence gate never blocks a CLOSE: whatever the confidence, a CLOSE
\* passes the gate to the account read, and once the account summary and a
\* price are there it enters the close sequence (the position read of
\* close_position).
C5_CloseNeverGated ==
    decision.action = "CLOSE" =>
        /\ outcome # "low_confidence"
        /\ PastGate => (pc = "account" \/ Made({"getAccount"}) # {})
        /\ ((\E i \in Made({"getAccount"}) : calls[i].res = "ok") /\ price # 0) =>
              \/ pc = "close_read"
              \/ \E i \in Made({"getPosition"}) : calls[i].att >= 1

\* a CLOSE with confidence " low " (0.4) has closed the position
C5_Witness ==
    /\ outcome = "closed"
    /\ decision.action = "CLOSE"
    /\ ConvertedConfidence < 50
    /\ Made({"marketOrder"}) # {}

RiskRejected == \E i \in Made({"riskCheck"}) : calls[i].res = "reject"

\* C6: the step in which the risk check rejects a proposed open ends
\* execute_decision: no exchange trading call was or will be made for it, and
\* trade_count is left as it was.
C6_RiskRejectionStopsOpen ==
    [][RiskRejected' =>
          /\ NoTradingCall'
          /\ pc' = "done"
          /\ outcome' = "risk_rejected"
          /\ trade_count' = trade_count]_vars

C6_Witness ==
    /\ outcome = "risk_rejected"
    /\ RiskRejected
    /\ IsOpen

\* C7: with a HOLD decision, the default decision of a parse failure included,
\* no step of the controller makes an exchange trading call or changes the
\* position, the resting orders or trade_count.
C7_HoldMakesNoCall ==
    [][(pc' # pc /\ decision'.action = "HOLD") =>
          /\ NoTradingCall'
          /\ pos' = pos
          /\ protect' = protect
          /\ trade_count' = trade_count]_vars

\* the default decision of a parse failure went through execute_decision
C7_Witness ==
    /\ outcome = "hold"
    /\ decision = default_decision
    /\ Made({"getAccount"}) # {}

C9_LeverageFailureSwallowed ==
    /\ \A i \in Made({"setLeverage"}) :
          calls[i].res = "fail" =>
              IF i = Len(calls)
              THEN pc \in {"long_entry", "short_entry"}
              ELSE /\ calls[i + 1].op = "marketOrder"
                   /\ calls[i + 1].att = calls[i].att
                   /\ calls[i + 1].sym = sym
                   /\ calls[i + 1].a =
                          (IF decision.action = "BUY_OPEN" THEN "BUY" ELSE "SELL")
                   /\ calls[i + 1].n =
                          order_quantity(total_equity, decision.position_percent, price)
    /\ (pc \in {"raised_long", "raised_short"} \/ outcome = "open_failed") =>
          /\ calls # <<>>
          /\ calls[Len(calls)].op = "marketOrder"
          /\ calls[Len(calls)].res # "ok"

\* the leverage call failed and the position was opened all the same
C9_Witness ==
    /\ outcome = "opened"
    /\ \E i \in Made({"setLeverage"}) : calls[i].res = "fail"
    /\ pos[sym] # 0

\* C10: when a protective order fails after the entry order succeeded, the open
\* returns normally (trade_count is incremented), the only market order is the
\* entry, nothing is cancelled, and a warning is logged; the error of an open
\* that failed is not, whereas an open that failed logs the error and no such
\* warning.
C10_ProtectionFailureIsWarning ==
    /\ (\E i \in Made(ProtectiveOps) : calls[i].res # "ok") =>
          /\ pc = "done"
          /\ outcome = "opened"
          /\ trade_count >= 1
          /\ Event("warning", "tpsl_failed") \in events
          /\ Event("error", "open_failed") \notin events
          /\ Cardinality(Made({"marketOrder"})) = 1
          /\ \A j \in Made({"marketOrder"}) : calls[j].res = "ok" /\ calls[j].a = args.side
          /\ Made({"cancelAllOrders"}) = {}
    /\ outcome = "open_failed" =>
          /\ Event("error", "open_failed") \in events
          /\ Event("warning", "tpsl_failed") \notin events

\* the position is open, the exchange refused the stop-loss order, the warning is
\* in the log
C10_Witness ==
    /\ outcome = "opened"
    /\ pos[sym] # 0
    /\ \E i \in Made({"placeConditional:STOP_LOSS"}) : calls[i].res = "api_error"
    /\ Event("warning", "tpsl_failed") \in events

\* C11: take-profit and stop-loss placement are independent: once the entry
\* order has succeeded and the open has returned, a stop-loss order was
\* submitted if a stop-loss price is configured and a take-profit order if a
\* take-profit price is configured, whether the other one was configured,
\* skipped or failed.
C11_ProtectiveOrdersIndependent ==
    outcome = "opened" =>
        /\ args.stop_loss # 0 => Made({"placeConditional:STOP_LOSS"}) # {}
        /\ args.take_profit # 0 => Made({"placeConditional:TAKE_PROFIT"}) # {}

\* the history holds at most 100 records, the most recently saved ones in their
\* save order: their timestamps are the last ticks of the clock, ascending
MostRecentInOrder ==
    /\ Len(decision_history) <= 100
    /\ Len(decision_history) = (IF clock < 100 THEN clock ELSE 100)
    /\ \A i \in DOMAIN decision_history :
          decision_history[i].timestamp = clock - Len(decision_history) + i

\* a step leaves the records it keeps as they were and in their places: it
\* appends one, and drops the oldest one when the history was full
OnlyOldestEvicted ==
    \/ decision_history' = decision_history
    \/ /\ Len(decision_history) < 100
       /\ SubSeq(decision_history', 1, Len(decision_history)) = decision_history
       /\ Len(decision_history') = Len(decision_history) + 1
    \/ /\ Len(decision_history) = 100
       /\ Len(decision_history') = 100
       /\ SubSeq(decision_history', 1, 99) = Tail(decision_history)

\* C14: after any sequence of save_decision calls the history holds at most 100
\* records, they are the most recently saved ones in their save order, and no
\* step removes a record other than the oldest or reorders the records.
C14_HistoryBounded == []MostRecentInOrder /\ [][OnlyOldestEvicted]_vars

\* the history was full and two more records were saved: the two oldest are gone
C14_Witness ==
    /\ clock = 102
    /\ Len(decision_history) = 100
    /\ decision_history[1].timestamp = 3
    /\ decision_history[100].action = "BUY_OPEN"

\* C12: a failure while one symbol is handled (a data fetch error, a malformed
\* or unexpected decision entry, a risk rejection, an order that failed after
\* its retries) does not end the main loop, and the pass goes on to the
\* remaining symbols: when the pass is over, execute_decision has been called
\* for every configured symbol the pass held a decision for.
C12_SymbolFailureIsolated ==
    /\ phase # "crashed"
    /\ phase = "sleep" =>
          \A i \in DOMAIN decided :
              decided[i].symbol \in Range(symbols) =>
                  \E h \in handled : h.symbol = decided[i].symbol

DecisionsFor(s) == {i \in DOMAIN decided : decided[i].symbol = s}

\* C16: the decide step yields exactly one decision for every configured
\* symbol, in the batched path (all at once) as in the single-symbol path (by
\* the end of the pass), the default decision standing in when the AI call or
\* the parse failed.
C16_OneDecisionPerSymbol ==
    (phase = "execute" /\ (Len(symbols) > 1 \/ todo = <<>>)) =>
        \A s \in Range(symbols) : Cardinality(DecisionsFor(s)) = 1

\* C13: an interrupt lets the execution sequence in flight complete: when the
\* process has stopped, an open whose entry market order was submitted with
\* success has had its configured protective placement attempted, and a close
\* that issued cancelAllOrders has had its closing market order attempted.
C13_InterruptCompletesSequence ==
    pc = "stopped" =>
        /\ (/\ IsOpen
            /\ \E i \in Made({"marketOrder"}) : calls[i].res = "ok"
            /\ (args.take_profit # 0 \/ args.stop_loss # 0))
              => Made(ProtectiveOps) # {}
        /\ (decision.action = "CLOSE" /\ Made({"cancelAllOrders"}) # {})
              => Made({"marketOrder"}) # {}

\* C15: an open decision whose leverage is 0 or greater than 100 is rejected
\* before any exchange trading call, whatever the quantity, price and equity;
\* an open for which a trading call is made has passed the risk check.
C15_LeverageOutOfRangeRejected ==
    IsOpen =>
        /\ decision.leverage \notin 1..100 =>
              (NoTradingCall /\ outcome # "opened")
        /\ ~NoTradingCall =>
              \E i \in Made({"riskCheck"}) : calls[i].res = "accept"

\* C17: the quantity of an open, as the risk check sees it and as the entry
\* order submits it, is equity * (position_percent / 100) / price whatever the
\* leverage (in hundredths: n * price = equity * position_percent), and the
\* take-profit price of a BUY_OPEN is price * (1 + take_profit_percent / 100).
C17_QuantityAndTakeProfit ==
    IsOpen =>
        /\ \A i \in Made({"riskCheck", "marketOrder"}) :
              calls[i].n * price = total_equity * decision.position_percent
        /\ decision.action = "BUY_OPEN" =>
              \A i \in Made({"placeConditional:TAKE_PROFIT"}) :
                  calls[i].n * 100 = price * (100 + decision.take_profit_percent)

\* equity 5000, price 50000, 10 percent, leverage 5: 0.01 bought, take-profit
\* placed at 52500
C17_Witness ==
    /\ outcome = "opened"
    /\ decision.action = "BUY_OPEN"
    /\ decision.leverage = 5
    /\ decision.position_percent = 10
    /\ total_equity = 5000
    /\ price = 50000
    /\ \E i \in Made({"marketOrder"}) : calls[i].n = 1 /\ calls[i].res = "ok"
    /\ \E i \in Made({"placeConditional:TAKE_PROFIT"}) : calls[i].n = 52500

\* the raw signed amount of a record, when it is a number
RawAmount == field_value(raw.positionAmt, 0)

\* every numeric field of the record can be parsed
RecordParses ==
    /\ raw.fetched = "record"
    /\ parses(raw.positionAmt) /\ parses(raw.entryPrice)
    /\ parses(raw.markPrice) /\ parses(raw.leverage)

\* C18: for every raw record get_current_position returns absent when the raw
\* amount is 0, and otherwise a Position with a strictly positive amount whose
\* side is LONG iff the raw amount is positive and SHORT iff it is negative.
C18_AbsentIffZero ==
    (derived.called /\ raw.fetched = "record" /\ raw.positionAmt.kind = "num") =>
        IF RawAmount = 0 THEN ~derived.present
        ELSE /\ derived.present
             /\ derived.amount > 0
             /\ derived.side = "LONG" <=> RawAmount > 0
             /\ derived.side = "SHORT" <=> RawAmount < 0

\* what the code does: absent when the raw amount is 0, whatever the other
\* fields; for a non-zero amount and a record whose numeric fields all parse, a
\* Position with the magnitude as amount and the sign as side; absent when a
\* field does not parse, whatever the amount.
AbsentIffZeroOrUnparsable ==
    derived.called =>
        /\ (raw.fetched = "record" /\ raw.positionAmt.kind = "num" /\ RawAmount = 0)
              => ~derived.present
        /\ (RecordParses /\ RawAmount # 0) =>
              /\ derived.present
              /\ derived.amount > 0
              /\ derived.amount = (IF RawAmount > 0 THEN RawAmount ELSE -RawAmount)
              /\ derived.side = "LONG" <=> RawAmount > 0
              /\ derived.side = "SHORT" <=> RawAmount < 0
        /\ ~RecordParses => ~derived.present

\* C19: for every Position returned, with an entry price above 0 pnl_percent is
\* positive for a LONG marked above its entry and for a SHORT marked below it,
\* negative for a LONG marked below and a SHORT marked above; with entry price 0
\* pnl_percent is 0 (and the Position is returned: nothing is divided by 0).
C19_PnlPercentSign ==
    derived.called =>
        /\ derived.present =>
              /\ (derived.entry_price > 0 /\ derived.mark_price > derived.entry_price)
                    => IF derived.side = "LONG" THEN derived.pnl_percent > 0
                       ELSE derived.pnl_percent < 0
              /\ (derived.entry_price > 0 /\ derived.mark_price < derived.entry_price)
                    => IF derived.side = "LONG" THEN derived.pnl_percent < 0
                       ELSE derived.pnl_percent > 0
              /\ derived.entry_price = 0 => derived.pnl_percent = 0
        /\ (RecordParses /\ RawAmount # 0 /\ field_value(raw.entryPrice, 0) = 0)
              => (derived.present /\ derived.entry_price = 0
                  /\ derived.pnl_percent = 0)

\* a short entered at 100 and marked at 150 shows -50 percent
C19_Witness ==
    /\ derived.called
    /\ derived.present
    /\ derived.side = "SHORT"
    /\ derived.entry_price = 100
    /\ derived.mark_price = 150
    /\ derived.pnl_percent = -50


\* the fallback fields in the order the specification gives them
StatedFallbackOrder ==
    <<"totalMarginBalance", "totalCrossWalletBalance", "availableBalance",
      "walletBalance">>

StrictlyPositive(key) == raw[key].kind = "num" /\ raw[key].value > 0

PrimaryBalance == field_value(raw.totalWalletBalance, 0)

\* C20: in a summary read from a payload whose totalWalletBalance reads zero,
\* total_balance is the first strictly positive value among margin balance,
\* cross wallet balance, available balance and wallet balance, in that order,
\* and 0 when none of them is positive; when totalWalletBalance is non-zero,
\* total_balance is that value, the fallback loop reads no field, and a
\* fallback-only field that does not parse does not cost the summary.
C20_TotalBalanceFallback ==
    derived.called =>
        /\ (derived.present /\ PrimaryBalance = 0) =>
              \/ \E i \in 1..Len(StatedFallbackOrder) :
                    /\ StrictlyPositive(StatedFallbackOrder[i])
                    /\ \A j \in 1..(i - 1) : ~StrictlyPositive(StatedFallbackOrder[j])
                    /\ derived.total_balance = raw[StatedFallbackOrder[i]].value
              \/ /\ \A i \in 1..Len(StatedFallbackOrder) :
                        ~StrictlyPositive(StatedFallbackOrder[i])
                 /\ derived.total_balance = 0
        /\ (derived.present /\ PrimaryBalance # 0) =>
              /\ derived.total_balance = PrimaryBalance
              /\ derived.consulted = <<>>
        /\ ( /\ raw.fetched = "record"
             /\ parses(raw.totalWalletBalance) /\ PrimaryBalance # 0
             /\ parses(raw.availableBalance) /\ parses(raw.totalMarginBalance) )
              => derived.present

\* a zero wallet balance, a zero margin balance, no cross wallet balance: the
\* summary takes the available balance, although the wallet balance is positive
C20_Witness ==
    /\ derived.called /\ derived.present
    /\ raw.totalWalletBalance = Num(0)
    /\ raw.totalMarginBalance = Num(0)
    /\ raw.totalCrossWalletBalance = Missing
    /\ raw.availableBalance = Num(130)
    /\ raw.walletBalance = Num(140)
    /\ derived.total_balance = 130
    /\ derived.consulted =
         <<"totalMarginBalance", "totalCrossWalletBalance", "availableBalance">>

\* C21: every summary get_account_summary returns has equity >= 0, whatever the
\* payload's margin balance (absent, zero or negative), and its equity equals
\* its total_balance when the payload has no margin balance.
C21_EquityNonNegative ==
    (derived.called /\ derived.present) =>
        /\ derived.equity >= 0
        /\ raw.totalMarginBalance = Missing
              => derived.equity = derived.total_balance

\* C22: in every summary returned, margin_ratio is used_margin / total_balance
\* * 100 for the total_balance of that summary, the one found by the fallback
\* loop included, and 0 when that total_balance is 0.
C22_MarginRatioOfReportedBalance ==
    (derived.called /\ derived.present) =>
        /\ derived.total_balance = 0 => derived.margin_ratio = 0
        /\ derived.total_balance # 0 =>
              derived.margin_ratio * derived.total_balance
                  = derived.used_margin * 100

\* the category a string names once upper-cased and stripped of blanks
NamedCategory ==
    LET word == Strip(Upper(raw.str))
    IN  IF word = <<"H", "I", "G", "H">> THEN "HIGH"
        ELSE IF word = <<"M", "E", "D", "I", "U", "M">> THEN "MEDIUM"
        ELSE IF word = <<"L", "O", "W">> THEN "LOW"
        ELSE "none"

\* C23: convert_confidence_to_float never raises, whatever it is given; HIGH,
\* MEDIUM and LOW in any case and with surrounding blanks give 0.8, 0.6 and 0.4,
\* any other string 0.5, a number itself, and any other value 0.5.
C23_ConversionTotal ==
    derived.stage # "input" =>
        /\ derived.stage # "raised"
        /\ raw.kind = "str" =>
              derived.float = CASE NamedCategory = "HIGH" -> 80
                                [] NamedCategory = "MEDIUM" -> 60
                                [] NamedCategory = "LOW" -> 40
                                [] OTHER -> 50
        /\ raw.kind \in {"num", "bigint"} => derived.float = raw.num
        /\ raw.kind = "other" => derived.float = 50

\* C24: for a string or a number x, to_float(to_string(to_float(x))) is the
\* value of the bucket of to_float(x): 0.8 from 0.75 on, 0.6 from 0.55 on, 0.4
\* below, and 0.5 for a string that names no category.
C24_RoundTripKeepsBucket ==
    (derived.stage = "again" /\ raw.kind \in {"str", "num"}) =>
        derived.again =
            IF raw.kind = "str" /\ NamedCategory = "none" THEN 50
            ELSE IF derived.float >= 75 THEN 80
            ELSE IF derived.float >= 55 THEN 60
            ELSE 40

\* the timeframes among the first n whose snapshot was built
Succeeded(n) == { intervals[i] : i \in { j \in 1..n : raw[j] = "ok" } }

SnapshotsOfHandledTimeframes ==
    /\ derived.stage # "raised"
    /\ derived.stage = "loop" => derived.result = Succeeded(derived.next - 1)
    /\ derived.stage = "returned" => derived.result = Succeeded(Len(intervals))

SnapshotsKept == derived.result \subseteq derived'.result

\* C25: whichever timeframes fail or come back empty, get_multi_timeframe_data
\* returns, its keys being exactly the other timeframes; no step of the loop
\* raises or removes a snapshot already taken.
C25_PartialTimeframes ==
    []SnapshotsOfHandledTimeframes /\ [][SnapshotsKept]_vars

\* 5m raised in the fetch, 1h came back empty, 4h failed in the indicators: the
\* call has returned with 15m and 1d
C25_Witness ==
    /\ derived.stage = "returned"
    /\ raw[1] = "fetch_raises" /\ raw[2] = "ok" /\ raw[3] = "empty"
    /\ raw[4] = "indicators_raise" /\ raw[5] = "ok"
    /\ derived.result = {"15m", "1d"}

CloseSequence == <<"getPosition", "cancelAllOrders", "marketOrder">>

\* C26: a call of force_close_position makes the calls of close_position and no
\* others: the position read, then (for a non-zero amount) the cancellation of
\* the pending orders, whose failure does not stop it, then one market order on
\* the opposite side for the whole magnitude; it reads neither the account nor
\* the price and passes neither the confidence gate nor the risk check.
C26_ForceCloseIsCloseSequence ==
    decision.action = "FORCE_CLOSE" =>
        /\ pc \in {"close_read", "close_cancel", "close_order", "raised_close",
                   "done"}
        /\ Len(calls) <= Len(CloseSequence)
        /\ \A i \in DOMAIN calls :
              /\ calls[i].op = CloseSequence[i]
              /\ calls[i].sym = sym
        /\ Len(calls) >= 2 => (calls[1].res = "ok" /\ calls[1].n # 0)
        /\ Len(calls) = 3 =>
              /\ calls[3].a = (IF calls[1].n > 0 THEN "SELL" ELSE "BUY")
              /\ calls[3].n = (IF calls[1].n > 0 THEN calls[1].n ELSE -calls[1].n)
        /\ pc = "close_cancel" => Len(calls) = 1
        /\ pc = "close_order" => Len(calls) = 2
        /\ (pc = "done" /\ outcome = "closed") =>
              (Len(calls) = 3 /\ calls[3].res = "ok")
        /\ (pc = "done" /\ outcome = "closed_nothing") =>
              (Len(calls) = 1 /\ calls[1].n = 0)

\* a long of 0.01 was forced closed: the cancellation failed, SELL 0.01 filled
C26_Witness ==
    /\ decision.action = "FORCE_CLOSE"
    /\ pc = "done" /\ outcome = "closed"
    /\ Len(calls) = 3
    /\ calls[1].n = 1
    /\ calls[2].res = "fail"
    /\ calls[3].a = "SELL" /\ calls[3].n = 1
    /\ pos[sym] = 0
    /\ Event("error", "force_close") \in events

PartialCalled == pc # "idle"

RejectedPercentage ==
    (PartialCalled /\ ~(args.percentage > 0 /\ args.percentage <= 100)) =>
        /\ pc = "done"
        /\ outcome = "value_error"
        /\ calls = <<>>

ShareOrdered ==
    (PartialCalled /\ args.percentage > 0 /\ args.percentage <= 100
       /\ pc = "done" /\ calls # <<>> /\ calls[1].res = "ok" /\ calls[1].n # 0) =>
        /\ Len(calls) = 2
        /\ calls[2].op = "marketOrder"
        /\ calls[2].sym = calls[1].sym
        /\ calls[2].a = (IF calls[1].n > 0 THEN "SELL" ELSE "BUY")
        /\ calls[2].n * 100 = Abs(calls[1].n) * args.percentage

ExchangeUntouched ==
    (PartialCalled' /\ ~(args'.percentage > 0 /\ args'.percentage <= 100)) =>
        (pos' = pos /\ protect' = protect)

\* C27: close_position_partial with a percentage outside (0, 1] ends in an
\* error with no exchange call made and the exchange as it was; with a
\* percentage inside and a non-zero position read, it submits one market order
\* for |amount| * percentage on the side opposite to the position.
C27_PartialClose ==
    [](RejectedPercentage /\ ShareOrdered) /\ [][ExchangeUntouched]_vars

\* half of a short of 0.02 was bought back, and 0.01 remains short
C27_Witness ==
    /\ PartialCalled
    /\ args.percentage = 50
    /\ outcome = "closed_partial"
    /\ calls[1].n = -2
    /\ calls[2].a = "BUY" /\ calls[2].n = 1
    /\ pos[sym] = -1

\* C30: when the loop of a pass is over, the decision history holds a record
\* for every configured symbol the pass had a decision for, in the batched
\* path (more than one symbol) as in the single-symbol path.
C30_EveryDecisionRecorded ==
    (phase = "execute" /\ todo = <<>>) =>
        \A i \in DOMAIN decided :
            decided[i].symbol \in Range(symbols) =>
                \E j \in DOMAIN decision_history :
                    /\ decision_history[j].symbol = decided[i].symbol
                    /\ decision_history[j].action = decided[i].decision.action

\* C28: an open that reaches the risk check is sized and gated on an account
\* summary read after every earlier open of the pass was completed, so no two
\* opens of a pass are evaluated on the same summary.
C28_FreshSummaryPerOpen ==
    \A g \in handled, h \in handled :
        /\ g.completed_at < h.completed_at => g.completed_at < h.summary.at
        /\ g.symbol # h.symbol => g.summary.at # h.summary.at
        /\ h.gate.equity = h.summary.equity

\* both symbols were opened in one pass, the second on a summary read after the
\* first entry filled
C28_Witness ==
    /\ phase = "returned"
    /\ \E g \in handled, h \in handled :
          /\ g.symbol = "BTCUSDT" /\ h.symbol = "ETHUSDT"
          /\ g.filled /\ h.filled
          /\ g.completed_at < h.summary.at
          /\ h.summary.available_balance < g.summary.available_balance
    /\ pos["BTCUSDT"] # 0 /\ pos["ETHUSDT"] # 0

\* C29: check_all_risk_limits is given, for every open it gates, the equity and
\* the available balance of the account summary read for that decision, as two
\* inputs of their own.
C29_GateGivenEquityAndAvailable ==
    \A h \in handled :
        /\ h.gate.equity = h.summary.equity
        /\ h.gate.available_balance = h.summary.available_balance

\* C31: every entry market order of an open is preceded, in its attempt, by a
\* setLeverage call for the leverage of the decision, whatever that leverage is
\* between 1 and 100, 1 included.
C31_LeverageSetBeforeEntry ==
    (IsOpen /\ decision.leverage \in 1..100) =>
        \A j \in Made({"marketOrder"}) :
            \E i \in Made({"setLeverage"}) :
                /\ i < j
                /\ calls[i].att = calls[j].att
                /\ calls[i].sym = calls[j].sym
                /\ calls[i].n = decision.leverage

NamedIndicators ==
    {"rsi", "macd", "macd_signal", "macd_histogram", "ema_20", "ema_50",
     "sma_20", "sma_50", "bollinger_upper", "bollinger_middle",
     "bollinger_lower", "atr_14", "volume_ratio"}

HoldsDefault(k, v) == derived.indicators[k] = [kind |-> "default", value |-> v]

\* C32: for every frame of at least one candle _calculate_indicators returns a
\* set in which each named indicator is present, and an indicator whose window
\* the frame does not fill holds its default: RSI 50, MACD 0, EMA and SMA the
\* current price, Bollinger the price and the price +/- 2%, ATR 2% of the price.
C32_IndicatorsComplete ==
    derived.stage = "returned" =>
        /\ NamedIndicators \subseteq DOMAIN derived.indicators
        /\ raw.candles < 15 =>
              /\ HoldsDefault("rsi", 50)
              /\ HoldsDefault("atr_14", (raw.close * 2) \div 100)
        /\ raw.candles < 35 =>
              /\ HoldsDefault("macd", 0)
              /\ HoldsDefault("macd_signal", 0)
              /\ HoldsDefault("macd_histogram", 0)
        /\ raw.candles < 20 =>
              /\ HoldsDefault("ema_20", raw.close)
              /\ HoldsDefault("sma_20", raw.close)
              /\ HoldsDefault("bollinger_middle", raw.close)
              /\ HoldsDefault("bollinger_upper", (raw.close * 102) \div 100)
              /\ HoldsDefault("bollinger_lower", (raw.close * 98) \div 100)
        /\ raw.candles < 50 =>
              /\ HoldsDefault("ema_50", raw.close)
              /\ HoldsDefault("sma_50", raw.close)

GivenUp == outcome \in {"open_failed", "close_failed"}

FailureLogged ==
    GivenUp =>
        /\ pc = "done"
        /\ attempt = 3
        /\ Event("error", outcome) \in events

NotCounted == (GivenUp' /\ ~GivenUp) => trade_count' = trade_count

\* C33: when no collaborator call hangs, an execute_decision that was entered
\* returns; an executor call whose order keeps failing is given up after three
\* attempts, the failure is logged as an error and trade_count is not
\* incremented.
C33_ExecuteDecisionReturns ==
    /\ (pc = "execute") ~> (pc = "done")
    /\ []FailureLogged
    /\ [][NotCounted]_vars

\* an open was rejected three times: execute_decision has returned with the
\* failure logged and no trade counted
C33_Witness ==
    /\ pc = "done"
    /\ outcome = "open_failed"
    /\ trade_count = 0
    /\ Cardinality(Made({"marketOrder"})) = 1
    /\ \A i \in Made({"marketOrder"}) : calls[i].att = 3 /\ calls[i].res = "rejected"


\* the entry orders of the running attempt that the exchange filled
FilledEntries == {j \in Made({"marketOrder"}) : calls[j].res = "ok"}

\* C34: within one invocation of open_long / open_short, once the entry order
\* has succeeded no further entry order is submitted: the call goes on to the
\* protective orders or to its return, never to the retry wrapper, whatever the
\* leverage call or the protective orders answered; the attempt counter stays,
\* and the attempt holds one entry order (the exchange may fire a resting order
\* of the symbol meanwhile, which leaves the call where it stands).
C34_NoEntryAfterSuccess ==
    /\ [](IsOpen /\ FilledEntries # {} =>
              /\ Cardinality(Made({"marketOrder"})) = 1
              /\ pc \in {"place_tp", "place_sl", "done"})
    /\ [][(IsOpen /\ FilledEntries # {} /\ pc # "done") =>
              /\ attempt' = attempt
              /\ Made({"marketOrder"})' = Made({"marketOrder"})
              /\ pc' \in {pc, "place_sl", "done"}]_vars

\* the leverage call and a protective order both failed around an entry order
\* that was filled on the second attempt; the open returned with that one order
C34_Witness ==
    /\ pc = "done"
    /\ outcome = "opened"
    /\ attempt = 2
    /\ Cardinality(FilledEntries) = 1
    /\ \E i \in Made({"setLeverage"}) : calls[i].res = "fail"
    /\ \E i \in Made(ProtectiveOps) : calls[i].res # "ok"


\* the position reads of close_position in the running attempt
CloseReads == {i \in Made({"getPosition"}) : calls[i].att >= 1}

C36_HeldPositionGetsOrder ==
    (/\ decision.action = "CLOSE"
     /\ pc = "done"
     /\ outcome \in {"closed", "closed_nothing"}
     /\ \E i \in CloseReads : calls[i].att = attempt /\ calls[i].held # 0) =>
        /\ Made({"marketOrder"}) # {}
        /\ outcome = "closed"


\* C37: for every accepted open, whatever the signs of the decision's
\* take_profit_percent and stop_loss_percent, the protective prices handed to
\* the executor lie on the correct side of the entry price: for BUY_OPEN
\* stop-loss < price < take-profit, for SELL_OPEN take-profit < price < stop-loss.
C37_ProtectivePricesOnCorrectSide ==
    (IsOpen /\ args.side \in {"BUY", "SELL"}) =>
        IF args.side = "BUY"
        THEN args.stop_loss < price /\ price < args.take_profit
        ELSE args.take_profit < price /\ price < args.stop_loss


\* C38: a CLOSE decision for a symbol with an open position leads to a closing
\* attempt in that call of execute_decision even when the account summary could
\* not be read or the price is 0: when the call has returned and the position
\* is still held, close_position was entered (it read the position), and the
\* call did not return for the missing account summary or price.
C38_CloseAttemptedRegardless ==
    (decision.action = "CLOSE" /\ pc = "done" /\ pos[sym] # 0) =>
        /\ CloseReads # {}
        /\ outcome \notin {"no_account", "no_price"}

====
